---- MODULE Spec2Model ----
(***************************************************************************)
(* A model of wifi-monitor.js: the iw-scan output parser (parseIwScan),    *)
(* the scan executor with its busy-retry loop (scan, _performScan) and     *)
(* the monitoring loop (startMonitoring, stopMonitoring).                  *)
(*                                                                         *)
(* Strings are sequences of one-character strings, so that the regular     *)
(* expressions of the source are matched character by character.           *)
(* A JavaScript object is a function from its present field names to       *)
(* their values; a value that may be null is a sequence of length 0 or 1.  *)
(***************************************************************************)
EXTENDS Integers, Sequences, FiniteSets, TLC

VARIABLES
  \* ---- parseIwScan (one call) ----
  lines,        \* output.split('\n')
  idx,          \* position of the for-of loop in lines
  currentAp,    \* <<>> (null) or <<object>>
  bssid,        \* <<>> (null) or <<address>>
  aps,          \* the result array
  ppc,          \* "loop" | "done"
  now,          \* the clock read by new Date()
  \* ---- scan (one call) ----
  sc,           \* the frame of one call of scan()
  \* ---- the monitor object and its monitoring loop ----
  isMonitoring, scanCount, successfulScans, failedScans,
  monitoringInterval,  \* "unset" | "armed" | "cleared"
  startPc,      \* position of startMonitoring()
  cycles,       \* frames of the scan cycles in flight
  exitCode,     \* -1 while the process runs, else the code of process.exit
  console,      \* what the last step printed
  lastCall,     \* the operation the last step ran
  consecutiveFailed, \* history: failed cycles since the last successful one
  format,       \* this.format
  csvFile,      \* wifi_scan.csv: whether it exists, the header rows in it
  jsonFiles,    \* the scan_count values of the JSON snapshots written
  \* ---- new WiFiMonitor(options) and the commands it invokes ----
  impl,         \* which file's class WiFiMonitor is constructed
  options,      \* the options object passed to the constructor
  self,         \* <<>> or <<this>>: interface, interval, outputDir, format
  ctorPc,       \* "new" | "constructed" | "threw"
  thrown,       \* the error the constructor threw, "" if none
  dirs,         \* the directories that exist
  execLog,      \* the external commands invoked so far
  \* ---- the CSV file: one saveToCSV and one analyzeCSV ----
  csvAps,       \* the records passed to saveToCSV
  row,          \* the escaped values of the last record written
  fileText,     \* the content of wifi_scan.csv
  data,         \* the records analyzeCSV read, <<>> before it
  csvPc,        \* "idle" | "ready" | "saved" | "failed" | "analyzed"
  \* ---- one call of calculateDistance ----
  distArgs,     \* <<>> or <<rssi, frequency>>
  distResult,   \* <<>> or <<the object returned>>
  \* ---- one run of the command line ----
  args,         \* process.argv.slice(2)
  cliPc,        \* "none" | "start" | "main"
  analysis,     \* "none" | "pending" | "done": the promise of analyzeCSV
  oneShot       \* the cycle started for --once, 0 when there is none

parseVars == <<lines, idx, currentAp, bssid, aps, ppc, now>>
scanVars  == <<sc>>
monVars   == <<isMonitoring, scanCount, successfulScans, failedScans,
               monitoringInterval, startPc, cycles, exitCode, console,
               lastCall, consecutiveFailed, format, csvFile, jsonFiles>>
ctorVars  == <<impl, options, self, ctorPc, thrown, dirs, execLog>>
csvVars   == <<csvAps, row, fileText, data, csvPc>>
distVars  == <<distArgs, distResult>>
cliVars   == <<args, cliPc, analysis, oneShot>>
vars == <<parseVars, scanVars, monVars, ctorVars, csvVars, distVars, cliVars>>

-----------------------------------------------------------------------------
(* Bounds *)
MaxLines == 3
MaxClock == 1
MaxRetries == 3
MaxCycles == 2
MaxScans == 3
MaxLongRun == 7
MaxValueLen == 2

-----------------------------------------------------------------------------
(* Characters and regular-expression pieces *)

Digit == {"0", "1", "2", "3", "4", "5", "6", "7", "8", "9"}
Upper == {"A", "B", "C", "D", "E", "F", "G", "H", "I", "J", "K", "L", "M",
          "N", "O", "P", "Q", "R", "S", "T", "U", "V", "W", "X", "Y", "Z"}
Lower == {"a", "b", "c", "d", "e", "f", "g", "h", "i", "j", "k", "l", "m",
          "n", "o", "p", "q", "r", "s", "t", "u", "v", "w", "x", "y", "z"}
WS == {" ", "\t", "\r", "\f"}

\* s.length >= i+|lit|-1 and s.substr(i, |lit|) = lit
LitAt(s, i, lit) ==
  /\ i + Len(lit) - 1 <= Len(s)
  /\ SubSeq(s, i, i + Len(lit) - 1) = lit

\* greedy C*: the first position from i on whose character is not in C
RECURSIVE Star(_, _, _)
Star(s, i, C) ==
  IF i <= Len(s) /\ s[i] \in C THEN Star(s, i + 1, C) ELSE i

\* greedy .* : up to the first line terminator
RECURSIVE DotStar(_, _)
DotStar(s, i) ==
  LET LineTerminator == {"\n", "\r"}
  IN  IF i <= Len(s) /\ s[i] \notin LineTerminator THEN DotStar(s, i + 1) ELSE i

\* String.prototype.includes / an unanchored literal
Includes(s, lit) ==
  \E i \in 1..(Len(s) + 1) : LitAt(s, i, lit)

\* parseInt of a string of decimal digits
RECURSIVE parseInt(_)
parseInt(d) ==
  LET DigitValue(c) ==
        CASE c = "0" -> 0 [] c = "1" -> 1 [] c = "2" -> 2 [] c = "3" -> 3
          [] c = "4" -> 4 [] c = "5" -> 5 [] c = "6" -> 6 [] c = "7" -> 7
          [] c = "8" -> 8 [] c = "9" -> 9
  IN  IF d = <<>> THEN 0
      ELSE 10 * parseInt(SubSeq(d, 1, Len(d) - 1)) + DigitValue(d[Len(d)])

\* a decimal number m / 10^e, with no trailing zero in the fraction
RECURSIVE Normal(_)
Normal(x) ==
  IF x.e > 0 /\ x.m % 10 = 0 THEN Normal([m |-> x.m \div 10, e |-> x.e - 1])
  ELSE x

\* parseFloat of -?\d+(\.\d+)?
parseFloat(t) ==
  LET neg  == t[1] = "-"
      u    == IF neg THEN Tail(t) ELSE t
      p    == Star(u, 1, Digit)
      ip   == SubSeq(u, 1, p - 1)
      fp   == IF p <= Len(u) THEN SubSeq(u, p + 1, Len(u)) ELSE <<>>
      mag  == parseInt(ip \o fp)
  IN  Normal([m |-> IF neg THEN 0 - mag ELSE mag, e |-> Len(fp)])

\* String.prototype.trim
trim(s) ==
  LET a == Star(s, 1, WS)
      b == CHOOSE j \in 0..Len(s) :
             /\ \A k \in (j + 1)..Len(s) : s[k] \in WS
             /\ (j > 0 => s[j] \notin WS)
  IN  IF a > b THEN <<>> ELSE SubSeq(s, a, b)

\* /^\s*<key>\s*(\d+)/ : <<>> or <<the digits>>
KeyDigits(line, key) ==
  LET i == Star(line, 1, WS)
      j == Star(line, i + Len(key), WS)
      k == Star(line, j, Digit)
  IN  IF LitAt(line, i, key) /\ k > j THEN <<SubSeq(line, j, k - 1)>> ELSE <<>>

\* /^\s*<key>\s*(.*)/ : <<>> or <<the rest>>
KeyRest(line, key) ==
  LET i == Star(line, 1, WS)
      j == Star(line, i + Len(key), WS)
      k == DotStar(line, j)
  IN  IF LitAt(line, i, key) THEN <<SubSeq(line, j, k - 1)>> ELSE <<>>

\* /^\s*<key>/
KeyOnly(line, key) == LitAt(line, Star(line, 1, WS), key)

\* /<key>\s*Version/ anywhere in the line
KeyVersion(line, key) ==
  \E i \in 1..Len(line) :
    /\ LitAt(line, i, key)
    /\ LitAt(line, Star(line, i + Len(key), WS),
             <<"V", "e", "r", "s", "i", "o", "n">>)

-----------------------------------------------------------------------------
(* The patterns of parseIwScan *)

\* /^BSS ([0-9a-f:]{17})/
bssMatch(line) ==
  LET HexLowerColon == Digit \cup {"a", "b", "c", "d", "e", "f", ":"}
  IN  IF /\ LitAt(line, 1, <<"B", "S", "S", " ">>)
         /\ Len(line) >= 21
         /\ \A k \in 5..21 : line[k] \in HexLowerColon
      THEN <<SubSeq(line, 5, 21)>> ELSE <<>>

freqMatch(line) == KeyDigits(line, <<"f", "r", "e", "q", ":">>)

\* /^\s*signal:\s*(-?\d+(?:\.\d+)?)\s*dBm/
signalMatch(line) ==
  LET key == <<"s", "i", "g", "n", "a", "l", ":">>
      i  == Star(line, 1, WS)
      j  == Star(line, i + Len(key), WS)
      j1 == IF j <= Len(line) /\ line[j] = "-" THEN j + 1 ELSE j
      k  == Star(line, j1, Digit)
      f  == IF k <= Len(line) /\ line[k] = "." THEN Star(line, k + 1, Digit)
            ELSE k
      k1 == IF f > k + 1 THEN f ELSE k
      d  == Star(line, k1, WS)
  IN  IF LitAt(line, i, key) /\ k > j1 /\ LitAt(line, d, <<"d", "B", "m">>)
      THEN <<SubSeq(line, j, k1 - 1)>> ELSE <<>>

\* /^\s*last seen:\s*(\d+)\s*ms/
lastSeenMatch(line) ==
  LET key == <<"l", "a", "s", "t", " ", "s", "e", "e", "n", ":">>
      m == KeyDigits(line, key)
      i == Star(line, 1, WS)
      j == Star(line, i + Len(key), WS)
      k == Star(line, j, Digit)
  IN  IF m # <<>> /\ LitAt(line, Star(line, k, WS), <<"m", "s">>)
      THEN m ELSE <<>>

\* as ssidMatch, but the payload must not be empty
ssidMatch_nonEmpty(line) ==
  LET key == <<"S", "S", "I", "D", ":">>
      i == Star(line, 1, WS)
      j == Star(line, i + Len(key), WS)
      k == DotStar(line, j)
  IN  IF LitAt(line, i, key) /\ k > j THEN <<SubSeq(line, j, k - 1)>>
      ELSE <<>>

ssidMatch(line) == KeyRest(line, <<"S", "S", "I", "D", ":">>)

\* /^\s*DS Parameter set:\s*channel\s*(\d+)/
channelMatch(line) ==
  LET key == <<"D", "S", " ", "P", "a", "r", "a", "m", "e", "t", "e", "r",
               " ", "s", "e", "t", ":">>
      ch  == <<"c", "h", "a", "n", "n", "e", "l">>
      i == Star(line, 1, WS)
      j == Star(line, i + Len(key), WS)
      c == Star(line, j + Len(ch), WS)
      k == Star(line, c, Digit)
  IN  IF LitAt(line, i, key) /\ LitAt(line, j, ch) /\ k > c
      THEN <<SubSeq(line, c, k - 1)>> ELSE <<>>

capMatch(line) ==
  KeyRest(line, <<"c", "a", "p", "a", "b", "i", "l", "i", "t", "y", ":">>)

beaconMatch(line) ==
  KeyDigits(line, <<"b", "e", "a", "c", "o", "n", " ", "i", "n", "t", ":">>)

\* /^\s*Country:\s*([A-Z]{2})/
countryMatch(line) ==
  LET key == <<"C", "o", "u", "n", "t", "r", "y", ":">>
      i == Star(line, 1, WS)
      j == Star(line, i + Len(key), WS)
  IN  IF /\ LitAt(line, i, key)
         /\ j + 1 <= Len(line)
         /\ line[j] \in Upper /\ line[j + 1] \in Upper
      THEN <<SubSeq(line, j, j + 1)>> ELSE <<>>

htMatch(line) ==
  KeyOnly(line, <<"H", "T", " ", "c", "a", "p", "a", "b", "i", "l", "i", "t",
                  "i", "e", "s">>)
vhtMatch(line) ==
  KeyOnly(line, <<"V", "H", "T", " ", "c", "a", "p", "a", "b", "i", "l", "i",
                  "t", "i", "e", "s">>)
heMatch(line) ==
  KeyOnly(line, <<"H", "E", " ", "c", "a", "p", "a", "b", "i", "l", "i", "t",
                  "i", "e", "s">>)

wpaMatch(line) == KeyVersion(line, <<"W", "P", "A", ":">>)
rsnMatch(line) == KeyVersion(line, <<"R", "S", "N", ":">>)
saeMatch(line) ==
  Includes(line, <<"W", "L", "A", "N", "_", "K", "E", "Y", "_", "M", "G",
                   "M", "T", "_", "S", "A", "E">>)

-----------------------------------------------------------------------------
(* calculateDistance.  Distances are in tenths of a metre (the code rounds *)
(* to one decimal place).  The powers and logarithms of the formula are    *)
(* tabulated: a row of DistanceTable is <<rssi, frequency, estimated, min,  *)
(* max>>, the last three being avgDistance, minDistance and maxDistance of  *)
(* lines 108-123 in double arithmetic, through toFixed(1) and parseFloat.   *)

DistanceTable == {
  <<0 - 100, 2412, 50049, 30030, 70069>>,
  <<0 - 95, 2412, 34092, 20455, 47729>>,
  <<0 - 90, 2412, 23224, 13934, 32513>>,
  <<0 - 85, 2412, 15820, 9492, 22148>>,
  <<0 - 80, 2412, 10777, 6466, 15088>>,
  <<0 - 75, 2412, 7342, 4405, 10278>>,
  <<0 - 70, 2412, 5002, 3001, 7002>>,
  <<0 - 65, 2412, 3407, 2044, 4770>>,
  <<0 - 60, 2412, 2321, 1393, 3250>>,
  <<0 - 55, 2412, 1581, 949, 2214>>,
  <<0 - 50, 2412, 1077, 646, 1508>>,
  <<0 - 45, 2412, 734, 440, 1028>>,
  <<0 - 40, 2412, 500, 300, 700>>,
  <<0 - 35, 2412, 341, 204, 477>>,
  <<0 - 30, 2412, 232, 139, 325>>,
  <<0 - 25, 2412, 158, 95, 221>>,
  <<0 - 20, 2412, 108, 65, 151>>,
  <<0 - 15, 2412, 73, 44, 103>>,
  <<0 - 10, 2412, 50, 30, 70>>,
  <<0 - 5, 2412, 34, 20, 48>>,
  <<0, 2412, 23, 14, 32>>,
  <<5, 2412, 16, 9, 22>>,
  <<10, 2412, 11, 6, 15>>,
  <<15, 2412, 7, 4, 10>>,
  <<20, 2412, 5, 3, 7>>,
  <<25, 2412, 3, 2, 5>>,
  <<30, 2412, 2, 1, 3>>,
  <<35, 2412, 2, 1, 2>>,
  <<40, 2412, 1, 1, 2>>,
  <<45, 2412, 1, 0, 1>>,
  <<0 - 100, 2437, 50049, 30029, 70069>>,
  <<0 - 95, 2437, 34092, 20455, 47729>>,
  <<0 - 90, 2437, 23223, 13934, 32513>>,
  <<0 - 85, 2437, 15820, 9492, 22148>>,
  <<0 - 80, 2437, 10777, 6466, 15088>>,
  <<0 - 75, 2437, 7342, 4405, 10278>>,
  <<0 - 70, 2437, 5002, 3001, 7002>>,
  <<0 - 65, 2437, 3407, 2044, 4770>>,
  <<0 - 60, 2437, 2321, 1393, 3250>>,
  <<0 - 55, 2437, 1581, 949, 2214>>,
  <<0 - 50, 2437, 1077, 646, 1508>>,
  <<0 - 45, 2437, 734, 440, 1028>>,
  <<0 - 40, 2437, 500, 300, 700>>,
  <<0 - 35, 2437, 341, 204, 477>>,
  <<0 - 30, 2437, 232, 139, 325>>,
  <<0 - 25, 2437, 158, 95, 221>>,
  <<0 - 20, 2437, 108, 65, 151>>,
  <<0 - 15, 2437, 73, 44, 103>>,
  <<0 - 10, 2437, 50, 30, 70>>,
  <<0 - 5, 2437, 34, 20, 48>>,
  <<0, 2437, 23, 14, 32>>,
  <<5, 2437, 16, 9, 22>>,
  <<10, 2437, 11, 6, 15>>,
  <<15, 2437, 7, 4, 10>>,
  <<20, 2437, 5, 3, 7>>,
  <<25, 2437, 3, 2, 5>>,
  <<30, 2437, 2, 1, 3>>,
  <<35, 2437, 2, 1, 2>>,
  <<40, 2437, 1, 1, 2>>,
  <<45, 2437, 1, 0, 1>>,
  <<0 - 100, 5180, 50023, 30014, 70032>>,
  <<0 - 95, 5180, 34078, 20447, 47709>>,
  <<0 - 90, 5180, 23215, 13929, 32501>>,
  <<0 - 85, 5180, 15815, 9489, 22142>>,
  <<0 - 80, 5180, 10774, 6465, 15084>>,
  <<0 - 75, 5180, 7340, 4404, 10276>>,
  <<0 - 70, 5180, 5001, 3000, 7001>>,
  <<0 - 65, 5180, 3407, 2044, 4770>>,
  <<0 - 60, 5180, 2321, 1393, 3249>>,
  <<0 - 55, 5180, 1581, 949, 2214>>,
  <<0 - 50, 5180, 1077, 646, 1508>>,
  <<0 - 45, 5180, 734, 440, 1028>>,
  <<0 - 40, 5180, 500, 300, 700>>,
  <<0 - 35, 5180, 341, 204, 477>>,
  <<0 - 30, 5180, 232, 139, 325>>,
  <<0 - 25, 5180, 158, 95, 221>>,
  <<0 - 20, 5180, 108, 65, 151>>,
  <<0 - 15, 5180, 73, 44, 103>>,
  <<0 - 10, 5180, 50, 30, 70>>,
  <<0 - 5, 5180, 34, 20, 48>>,
  <<0, 5180, 23, 14, 32>>,
  <<5, 5180, 16, 9, 22>>,
  <<10, 5180, 11, 6, 15>>,
  <<15, 5180, 7, 4, 10>>,
  <<20, 5180, 5, 3, 7>>,
  <<25, 5180, 3, 2, 5>>,
  <<30, 5180, 2, 1, 3>>,
  <<35, 5180, 2, 1, 2>>,
  <<40, 5180, 1, 1, 2>>,
  <<45, 5180, 1, 0, 1>>,
  <<0 - 100, 5500, 50022, 30013, 70030>>,
  <<0 - 95, 5500, 34077, 20446, 47708>>,
  <<0 - 90, 5500, 23215, 13929, 32501>>,
  <<0 - 85, 5500, 15815, 9489, 22141>>,
  <<0 - 80, 5500, 10774, 6465, 15084>>,
  <<0 - 75, 5500, 7340, 4404, 10276>>,
  <<0 - 70, 5500, 5001, 3000, 7001>>,
  <<0 - 65, 5500, 3407, 2044, 4770>>,
  <<0 - 60, 5500, 2321, 1393, 3249>>,
  <<0 - 55, 5500, 1581, 949, 2214>>,
  <<0 - 50, 5500, 1077, 646, 1508>>,
  <<0 - 45, 5500, 734, 440, 1028>>,
  <<0 - 40, 5500, 500, 300, 700>>,
  <<0 - 35, 5500, 341, 204, 477>>,
  <<0 - 30, 5500, 232, 139, 325>>,
  <<0 - 25, 5500, 158, 95, 221>>,
  <<0 - 20, 5500, 108, 65, 151>>,
  <<0 - 15, 5500, 73, 44, 103>>,
  <<0 - 10, 5500, 50, 30, 70>>,
  <<0 - 5, 5500, 34, 20, 48>>,
  <<0, 5500, 23, 14, 32>>,
  <<5, 5500, 16, 9, 22>>,
  <<10, 5500, 11, 6, 15>>,
  <<15, 5500, 7, 4, 10>>,
  <<20, 5500, 5, 3, 7>>,
  <<25, 5500, 3, 2, 5>>,
  <<30, 5500, 2, 1, 3>>,
  <<35, 5500, 2, 1, 2>>,
  <<40, 5500, 1, 1, 2>>,
  <<45, 5500, 1, 0, 1>>}

\* lines 106-131
calculateDistance(rssi, frequency) ==
  LET t == CHOOSE u \in DistanceTable :
             u[1] = rssi.m /\ rssi.e = 0 /\ u[2] = frequency
  IN  [estimated |-> t[3], min |-> t[4], max |-> t[5], accuracy |-> "low"]

-----------------------------------------------------------------------------
(* parseIwScan *)

Has(o, f) == f \in DOMAIN o
Put(o, f, v) == (f :> v) @@ o

\* as TruthySignal, but any signal that is present counts
TruthySignal_presentOnly(ap) == Has(ap, "signal_dbm")

\* JavaScript truthiness of currentAp.signal_dbm and currentAp.freq_mhz
TruthySignal(ap) == Has(ap, "signal_dbm") /\ ap["signal_dbm"].m # 0
TruthyFreq(ap) == Has(ap, "freq_mhz") /\ ap["freq_mhz"] # 0

WithDistance(ap) ==
  LET distance == calculateDistance(ap["signal_dbm"], ap["freq_mhz"])
  IN  Put(Put(Put(ap, "distance_meters", distance.estimated),
              "distance_min", distance.min),
          "distance_max", distance.max)

\* as finalizeAtHeader, but a record whose address is already in the result
\* is dropped
finalizeAtHeader_dedup(st) ==
  IF st.currentAp # <<>> /\ st.bssid # <<>>
     /\ \A i \in 1..Len(st.aps) : st.aps[i]["bssid"] # st.bssid[1]
  THEN LET ap == Put(st.currentAp[1], "bssid", st.bssid[1])
       IN  Append(st.aps,
                  IF TruthySignal(ap) /\ TruthyFreq(ap) THEN WithDistance(ap)
                  ELSE ap)
  ELSE st.aps

\* lines 148-163: the record is closed when the next header is seen
finalizeAtHeader(st) ==
  IF st.currentAp # <<>> /\ st.bssid # <<>>
  THEN LET ap == Put(st.currentAp[1], "bssid", st.bssid[1])
       IN  Append(st.aps,
                  IF TruthySignal(ap) /\ TruthyFreq(ap) THEN WithDistance(ap)
                  ELSE ap)
  ELSE st.aps

\* as finalizeAtEnd, but the last record gets no distance
finalizeAtEnd_noDistance(st) ==
  IF st.currentAp # <<>> /\ st.bssid # <<>>
  THEN Append(st.aps, Put(st.currentAp[1], "bssid", st.bssid[1]))
  ELSE st.aps

\* lines 260-276: the last record is closed at the end of the input
finalizeAtEnd(st) ==
  IF st.currentAp # <<>> /\ st.bssid # <<>>
  THEN LET ap == Put(st.currentAp[1], "bssid", st.bssid[1])
       IN  Append(st.aps,
                  IF TruthySignal(ap) /\ TruthyFreq(ap) THEN WithDistance(ap)
                  ELSE ap)
  ELSE st.aps

\* as securityUpdate, but a tag the field already holds is not appended
securityUpdate_dedup(ap, line) ==
  LET sec(o) == IF Has(o, "security") THEN o["security"] ELSE <<>>
      add(o, tag) == IF Includes(sec(o), tag) THEN o
                     ELSE Put(o, "security", sec(o) \o tag)
      a1 == IF wpaMatch(line) THEN add(ap, <<"W", "P", "A", "1", " ">>)
            ELSE ap
      a2 == IF rsnMatch(line) THEN add(a1, <<"W", "P", "A", "2", " ">>)
            ELSE a1
      a3 == IF saeMatch(line) THEN add(a2, <<"W", "P", "A", "3", " ">>)
            ELSE a2
  IN  a3

\* as securityUpdate, but the tests run in the order SAE, RSN, WPA
securityUpdate_reversed(ap, line) ==
  LET sec(o) == IF Has(o, "security") THEN o["security"] ELSE <<>>
      a1 == IF saeMatch(line)
            THEN Put(ap, "security", sec(ap) \o <<"W", "P", "A", "3", " ">>)
            ELSE ap
      a2 == IF rsnMatch(line)
            THEN Put(a1, "security", sec(a1) \o <<"W", "P", "A", "2", " ">>)
            ELSE a1
      a3 == IF wpaMatch(line)
            THEN Put(a2, "security", sec(a2) \o <<"W", "P", "A", "1", " ">>)
            ELSE a2
  IN  a3

\* lines 248-257: the three security tests, each appending its tag
securityUpdate(ap, line) ==
  LET sec(o) == IF Has(o, "security") THEN o["security"] ELSE <<>>
      a1 == IF wpaMatch(line)
            THEN Put(ap, "security", sec(ap) \o <<"W", "P", "A", "1", " ">>)
            ELSE ap
      a2 == IF rsnMatch(line)
            THEN Put(a1, "security", sec(a1) \o <<"W", "P", "A", "2", " ">>)
            ELSE a1
      a3 == IF saeMatch(line)
            THEN Put(a2, "security", sec(a2) \o <<"W", "P", "A", "3", " ">>)
            ELSE a2
  IN  a3

\* as fieldUpdate, but an SSID line goes on to the security tests
fieldUpdate_ssidFallsThrough(ap, line) ==
  IF freqMatch(line) # <<>>
    THEN Put(ap, "freq_mhz", parseInt(freqMatch(line)[1]))
  ELSE IF signalMatch(line) # <<>>
    THEN Put(ap, "signal_dbm", parseFloat(signalMatch(line)[1]))
  ELSE IF lastSeenMatch(line) # <<>>
    THEN Put(ap, "last_seen_ms", parseInt(lastSeenMatch(line)[1]))
  ELSE IF ssidMatch(line) # <<>>
    THEN securityUpdate(Put(ap, "ssid", ssidMatch(line)[1]), line)
  ELSE IF channelMatch(line) # <<>>
    THEN Put(ap, "channel", parseInt(channelMatch(line)[1]))
  ELSE IF capMatch(line) # <<>>
    THEN Put(ap, "capability", trim(capMatch(line)[1]))
  ELSE IF beaconMatch(line) # <<>>
    THEN Put(ap, "beacon_interval", parseInt(beaconMatch(line)[1]))
  ELSE IF countryMatch(line) # <<>>
    THEN Put(ap, "country", countryMatch(line)[1])
  ELSE IF htMatch(line)
    THEN Put(ap, "ht_cap", <<"8", "0", "2", ".", "1", "1", "n">>)
  ELSE IF vhtMatch(line)
    THEN Put(ap, "vht_cap", <<"8", "0", "2", ".", "1", "1", "a", "c">>)
  ELSE IF heMatch(line)
    THEN Put(ap, "he_cap", <<"8", "0", "2", ".", "1", "1", "a", "x">>)
  ELSE securityUpdate(ap, line)

\* lines 174-257: the field tests on a line inside an open record
fieldUpdate(ap, line) ==
  IF freqMatch(line) # <<>>
    THEN Put(ap, "freq_mhz", parseInt(freqMatch(line)[1]))
  ELSE IF signalMatch(line) # <<>>
    THEN Put(ap, "signal_dbm", parseFloat(signalMatch(line)[1]))
  ELSE IF lastSeenMatch(line) # <<>>
    THEN Put(ap, "last_seen_ms", parseInt(lastSeenMatch(line)[1]))
  ELSE IF ssidMatch(line) # <<>>
    THEN Put(ap, "ssid", ssidMatch(line)[1])
  ELSE IF channelMatch(line) # <<>>
    THEN Put(ap, "channel", parseInt(channelMatch(line)[1]))
  ELSE IF capMatch(line) # <<>>
    THEN Put(ap, "capability", trim(capMatch(line)[1]))
  ELSE IF beaconMatch(line) # <<>>
    THEN Put(ap, "beacon_interval", parseInt(beaconMatch(line)[1]))
  ELSE IF countryMatch(line) # <<>>
    THEN Put(ap, "country", countryMatch(line)[1])
  ELSE IF htMatch(line)
    THEN Put(ap, "ht_cap", <<"8", "0", "2", ".", "1", "1", "n">>)
  ELSE IF vhtMatch(line)
    THEN Put(ap, "vht_cap", <<"8", "0", "2", ".", "1", "1", "a", "c">>)
  ELSE IF heMatch(line)
    THEN Put(ap, "he_cap", <<"8", "0", "2", ".", "1", "1", "a", "x">>)
  ELSE securityUpdate(ap, line)

\* as parseLine, but the lines before the first header are collected into
\* the record that the first header opens
parseLine_keepsEarlyLines(st, line, iface, t) ==
  IF bssMatch(line) # <<>>
  THEN [currentAp |-> IF st.currentAp # <<>> /\ st.bssid = <<>>
                      THEN st.currentAp
                      ELSE <<[timestamp |-> t, interface |-> iface]>>,
        bssid     |-> bssMatch(line),
        aps       |-> finalizeAtHeader(st)]
  ELSE IF st.currentAp = <<>>
  THEN [st EXCEPT !.currentAp =
          <<fieldUpdate([timestamp |-> t, interface |-> iface], line)>>]
  ELSE [st EXCEPT !.currentAp = <<fieldUpdate(st.currentAp[1], line)>>]

\* as parseLine, but a field line also updates the record emitted last
parseLine_sharedRecord(st, line, iface, t) ==
  IF bssMatch(line) # <<>>
  THEN [currentAp |-> <<[timestamp |-> t, interface |-> iface]>>,
        bssid     |-> bssMatch(line),
        aps       |-> finalizeAtHeader(st)]
  ELSE IF st.currentAp = <<>> THEN st
  ELSE [st EXCEPT !.currentAp = <<fieldUpdate(st.currentAp[1], line)>>,
                  !.aps = IF st.aps = <<>> THEN st.aps
                          ELSE [st.aps EXCEPT ![Len(st.aps)] =
                                                fieldUpdate(@, line)]]

\* as parseLine, but a line that changes nothing closes the open record
parseLine_closesOnUnknown(st, line, iface, t) ==
  IF bssMatch(line) # <<>>
  THEN [currentAp |-> <<[timestamp |-> t, interface |-> iface]>>,
        bssid     |-> bssMatch(line),
        aps       |-> finalizeAtHeader(st)]
  ELSE IF st.currentAp = <<>> THEN st
  ELSE IF fieldUpdate(st.currentAp[1], line) = st.currentAp[1]
  THEN [st EXCEPT !.currentAp = <<>>]
  ELSE [st EXCEPT !.currentAp = <<fieldUpdate(st.currentAp[1], line)>>]

\* lines 144-258: the body of the loop for one line; st is the parser's
\* locals, iface is this.interface, t the time new Date() returns
parseLine(st, line, iface, t) ==
  IF bssMatch(line) # <<>>
  THEN [currentAp |-> <<[timestamp |-> t, interface |-> iface]>>,
        bssid     |-> bssMatch(line),
        aps       |-> finalizeAtHeader(st)]
  ELSE IF st.currentAp = <<>> THEN st
  ELSE [st EXCEPT !.currentAp = <<fieldUpdate(st.currentAp[1], line)>>]

\* String.prototype.split('\n')
RECURSIVE split(_)
split(s) ==
  IF \A k \in 1..Len(s) : s[k] # "\n" THEN <<s>>
  ELSE LET n == CHOOSE k \in 1..Len(s) :
                  s[k] = "\n" /\ \A j \in 1..(k - 1) : s[j] # "\n"
       IN  <<SubSeq(s, 1, n - 1)>> \o split(SubSeq(s, n + 1, Len(s)))

\* the whole of parseIwScan, for a caller that does not observe its steps
RECURSIVE parseFrom(_, _, _, _, _)
parseFrom(st, ls, i, iface, t) ==
  IF i > Len(ls) THEN finalizeAtEnd(st)
  ELSE parseFrom(parseLine(st, ls[i], iface, t), ls, i + 1, iface, t)

parseIwScan(output, iface, t) ==
  parseFrom([currentAp |-> <<>>, bssid |-> <<>>, aps |-> <<>>],
            split(output), 1, iface, t)

-----------------------------------------------------------------------------
(* Inputs of the parser: texts of at most MaxLines lines *)

Interface == <<"w", "l", "p", "3", "s", "0">>

\* the lines the texts are made of, by the pattern each is aimed at
Line ==
  [ BssA |->
     <<"B", "S", "S", " ", "a", "a", ":", "b", "b", ":", "c", "c", ":", "d", "d", ":", "e", "e", ":", "0", "1", "(", "o", "n", " ", "w", "l", "a", "n", "0", ")">>,
    BssB |->
     <<"B", "S", "S", " ", "0", "2", ":", "0", "0", ":", "0", "0", ":", "0", "0", ":", "0", "0", ":", "0", "2", "(", "o", "n", ")", " ", "-", "-", " ", "a", "s", "s", "o", "c", "i", "a", "t", "e", "d">>,
    BssUpper |->
     <<"B", "S", "S", " ", "A", "A", ":", "B", "B", ":", "C", "C", ":", "D", "D", ":", "E", "E", ":", "0", "1", "(", "o", "n", ")">>,
    BssIndented |->
     <<" ", "B", "S", "S", " ", "a", "a", ":", "b", "b", ":", "c", "c", ":", "d", "d", ":", "e", "e", ":", "0", "1">>,
    BssShort |->
     <<"B", "S", "S", " ", "a", "a", ":", "b", "b", ":", "c", "c">>,
    Freq |->
     <<"\t", "f", "r", "e", "q", ":", " ", "2", "4", "3", "7">>,
    Signal |->
     <<"\t", "s", "i", "g", "n", "a", "l", ":", " ", "-", "6", "0", ".", "0", "0", " ", "d", "B", "m">>,
    SsidEmpty |->
     <<"\t", "S", "S", "I", "D", ":", " ">>,
    Rsn |->
     <<"\t", "R", "S", "N", ":", "\t", " ", "*", " ", "V", "e", "r", "s", "i", "o", "n", ":", " ", "1">>,
    Other |->
     <<"\t", "T", "S", "F", ":", " ", "0", " ", "u", "s", "e", "c">>,
    WpaVersion |->
     <<"\t", "W", "P", "A", ":", "\t", " ", "V", "e", "r", "s", "i", "o", "n", ":", " ", "1">>,
    RsnVersion |->
     <<"\t", "R", "S", "N", ":", " ", "V", "e", "r", "s", "i", "o", "n", ":", " ", "1">>,
    Sae |->
     <<"\t", " ", "*", " ", "W", "L", "A", "N", "_", "K", "E", "Y", "_", "M", "G", "M", "T", "_", "S", "A", "E">>,
    SsidRsn |->
     <<"\t", "S", "S", "I", "D", ":", " ", "R", "S", "N", ":", " ", "V", "e", "r", "s", "i", "o", "n">>,
    SsidBare |->
     <<"\t", "S", "S", "I", "D", ":">>,
    Freq0 |->
     <<"\t", "f", "r", "e", "q", ":", " ", "0">>,
    Signal0 |->
     <<"\t", "s", "i", "g", "n", "a", "l", ":", " ", "0", ".", "0", "0", " ", "d", "B", "m">>,
    SignalNegZero |->
     <<"\t", "s", "i", "g", "n", "a", "l", ":", " ", "-", "0", ".", "0", "0", " ", "d", "B", "m">>,
    SaeRsnWpa |->
     <<"\t", " ", "*", " ", "W", "L", "A", "N", "_", "K", "E", "Y", "_", "M", "G", "M", "T", "_", "S", "A", "E", " ", "R", "S", "N", ":", " ", "V", "e", "r", "s", "i", "o", "n", " ", "W", "P", "A", ":", " ", "V", "e", "r", "s", "i", "o", "n">>,
    SsidFreq |->
     <<"\t", "S", "S", "I", "D", ":", " ", "f", "r", "e", "q", ":", " ", "2", "4", "3", "7">>,
    HtCap |->
     <<"\t", "H", "T", " ", "c", "a", "p", "a", "b", "i", "l", "i", "t", "i", "e", "s", ":">>,
    VhtCap |->
     <<"\t", "V", "H", "T", " ", "c", "a", "p", "a", "b", "i", "l", "i", "t", "i", "e", "s", ":">>,
    BssColons |->
     <<"B", "S", "S", " ", ":", ":", ":", ":", ":", ":", ":", ":", ":", ":", ":", ":", ":", ":", ":", ":", ":">>,
    BssNoColons |->
     <<"B", "S", "S", " ", "a", "a", "b", "b", "c", "c", "d", "d", "e", "e", "f", "f", "0", "0", "1", "1", "2", "(", "o", "n", " ", "w", "l", "a", "n", "0", ")">> ]

RECURSIVE Join(_)
Join(ls) ==
  IF ls = <<>> THEN <<>>
  ELSE IF Len(ls) = 1 THEN ls[1]
  ELSE ls[1] \o <<"\n">> \o Join(Tail(ls))

Texts ==
  LET LineCatalog ==
        {Line.BssA, Line.BssB, Line.BssUpper, Line.BssIndented, Line.BssShort,
         Line.Freq, Line.Signal, Line.SsidEmpty, Line.Rsn, Line.Other}
  IN  {Join(ls) : ls \in UNION {[1..n -> LineCatalog] : n \in 0..MaxLines}}

\* lines of one record's section: markers of the three security tests, SSID
\* lines, and a line of the command's real output that no test matches
SectionTexts ==
  LET SectionCatalog ==
        {Line.BssA, Line.WpaVersion, Line.RsnVersion, Line.Sae, Line.Rsn,
         Line.SsidRsn, Line.SsidEmpty, Line.SsidBare}
  IN  {Join(ls) : ls \in UNION {[1..n -> SectionCatalog] : n \in 0..(MaxLines + 1)}}

\* lines of one record's section that carry, or fail to carry, a signal
\* and a frequency
DistanceTexts ==
  LET DistanceCatalog ==
        {Line.BssA, Line.Freq, Line.Freq0, Line.Signal, Line.Signal0, Line.SignalNegZero}
  IN  {Join(ls) : ls \in UNION {[1..n -> DistanceCatalog] : n \in 0..(MaxLines + 1)}}

\* lines that begin like a header line, with well-formed and ill-formed
\* addresses
\* lines that hold the literal of more than one test: several security
\* markers in one line, a field key inside another field's value, a key
\* that ends with another key
PriorityTexts ==
  LET PriorityCatalog ==
        {Line.BssA, Line.Freq, Line.SsidFreq, Line.SsidRsn, Line.HtCap,
         Line.VhtCap, Line.SaeRsnWpa, Line.RsnVersion}
  IN  {Join(ls) : ls \in UNION {[1..n -> PriorityCatalog] : n \in 0..(MaxLines + 1)}}

HeaderTexts ==
  LET HeaderCatalog ==
        {Line.BssA, Line.BssColons, Line.BssNoColons, Line.BssUpper, Line.BssShort, Line.Freq}
  IN  {Join(ls) : ls \in UNION {[1..n -> HeaderCatalog] : n \in 0..MaxLines}}

-----------------------------------------------------------------------------
(* The parser as a state machine: one step per line of the input *)

ParseIdle ==
  /\ lines = <<>> /\ idx = 1 /\ currentAp = <<>> /\ bssid = <<>>
  /\ aps = <<>> /\ ppc = "idle" /\ now = 0

\* lines 144-258
ParseLine ==
  /\ ppc = "loop" /\ idx <= Len(lines)
  /\ LET st == parseLine([currentAp |-> currentAp, bssid |-> bssid,
                          aps |-> aps], lines[idx], Interface, now)
     IN  /\ currentAp' = st.currentAp
         /\ bssid' = st.bssid
         /\ aps' = st.aps
  /\ idx' = idx + 1
  /\ UNCHANGED <<lines, ppc, now>>

\* lines 260-278
ParseEnd ==
  /\ ppc = "loop" /\ idx > Len(lines)
  /\ aps' = finalizeAtEnd([currentAp |-> currentAp, bssid |-> bssid,
                           aps |-> aps])
  /\ ppc' = "done"
  /\ UNCHANGED <<lines, idx, currentAp, bssid, now>>

\* time passes between two reads of the clock
ClockTick ==
  /\ ppc = "loop" /\ now < MaxClock
  /\ now' = now + 1
  /\ UNCHANGED <<lines, idx, currentAp, bssid, aps, ppc>>

-----------------------------------------------------------------------------
(* The constructor and its validators, in wifi-monitor.js and in the second *)
(* copy of the class (part_000).  A JavaScript value is a record of its     *)
(* type, its characters (a string) and its number; a result is a value      *)
(* returned or an error thrown.                                             *)

Undefined == [type |-> "undefined", s |-> <<>>, n |-> 0]
Str(s) == [type |-> "string", s |-> s, n |-> 0]
Num(n) == [type |-> "number", s |-> <<>>, n |-> n]

Ok(v) == [ok |-> TRUE, value |-> v, error |-> ""]
Fail(message) == [ok |-> FALSE, value |-> Undefined, error |-> message]

\* JavaScript truthiness, and a || b
Truthy(v) ==
  \/ v.type = "string" /\ v.s # <<>>
  \/ v.type = "number" /\ v.n # 0
Or(a, b) == IF Truthy(a) THEN a ELSE b

DigitChar(d) ==
  CASE d = 0 -> "0" [] d = 1 -> "1" [] d = 2 -> "2" [] d = 3 -> "3"
    [] d = 4 -> "4" [] d = 5 -> "5" [] d = 6 -> "6" [] d = 7 -> "7"
    [] d = 8 -> "8" [] d = 9 -> "9"

RECURSIVE NatString(_)
NatString(n) ==
  IF n < 10 THEN <<DigitChar(n)>>
  ELSE NatString(n \div 10) \o <<DigitChar(n % 10)>>

\* String(v), of a string, an integer or undefined
toString(v) ==
  CASE v.type = "string" -> v.s
    [] v.type = "number" ->
         IF v.n < 0 THEN <<"-">> \o NatString(0 - v.n) ELSE NatString(v.n)
    [] OTHER -> <<"u", "n", "d", "e", "f", "i", "n", "e", "d">>

\* parseInt(v, 10): <<>> (NaN) or <<the integer>>
parseInt10(v) ==
  LET t == toString(v)
      i == Star(t, 1, WS)
      signed == i <= Len(t) /\ t[i] \in {"-", "+"}
      j == IF signed THEN i + 1 ELSE i
      k == Star(t, j, Digit)
      mag == parseInt(SubSeq(t, j, k - 1))
  IN  IF k = j THEN <<>>
      ELSE IF signed /\ t[i] = "-" THEN <<0 - mag>> ELSE <<mag>>

DefaultInterval == 5000
MinInterval == 1000
MaxInterval == 3600000
MaxInterfaceLength == 16
DefaultOutputDir == <<".", "/", "w", "i", "f", "i", "_", "d", "a", "t", "a">>
DefaultFormat == <<"b", "o", "t", "h">>
NUL == "\\0"
Cwd == <<"/", "h", "o", "m", "e", "/", "u", "s", "e", "r">>

\* lines 31-43
validateInterface(iface) ==
  IF iface.type # "string" THEN Fail("Interface must be a string")
  ELSE IF ~(/\ Len(iface.s) >= 1
            /\ \A k \in 1..Len(iface.s) :
                 iface.s[k] \in Lower \cup Upper \cup Digit \cup {"_", "-"})
    THEN Fail("Invalid interface name")
  ELSE IF Len(iface.s) > MaxInterfaceLength
    THEN Fail("Interface name too long")
  ELSE Ok(iface)

\* as validateInterval, but a value out of range is clamped to the range
validateInterval_clamped(interval) ==
  LET num == parseInt10(interval)
  IN  IF num = <<>> THEN Fail("Invalid interval: must be >= 1000ms")
      ELSE IF num[1] < MinInterval THEN Ok(Num(MinInterval))
      ELSE IF num[1] > MaxInterval THEN Ok(Num(MaxInterval))
      ELSE Ok(Num(num[1]))

\* lines 51-60
validateInterval(interval) ==
  LET num == parseInt10(interval)
  IN  IF num = <<>> \/ num[1] < MinInterval
        THEN Fail("Invalid interval: must be >= 1000ms")
      ELSE IF num[1] > MaxInterval
        THEN Fail("Invalid interval: must be <= 3600000ms")
      ELSE Ok(Num(num[1]))

\* String.prototype.split(sep) for a one-character separator
RECURSIVE splitOn(_, _)
splitOn(s, sep) ==
  IF \A k \in 1..Len(s) : s[k] # sep THEN <<s>>
  ELSE LET n == CHOOSE k \in 1..Len(s) :
                  s[k] = sep /\ \A j \in 1..(k - 1) : s[j] # sep
       IN  <<SubSeq(s, 1, n - 1)>> \o splitOn(SubSeq(s, n + 1, Len(s)), sep)

RECURSIVE normalize(_, _)
normalize(segs, acc) ==
  IF segs = <<>> THEN acc
  ELSE LET h == Head(segs)
       IN  normalize(Tail(segs),
             IF h = <<>> \/ h = <<".">> THEN acc
             ELSE IF h = <<".", ".">>
               THEN SubSeq(acc, 1, Len(acc) - 1)
             ELSE Append(acc, h))

RECURSIVE joinSlash(_)
joinSlash(segs) ==
  IF segs = <<>> THEN <<>>
  ELSE <<"/">> \o Head(segs) \o joinSlash(Tail(segs))

\* path.resolve(dir) in the working directory Cwd
resolve(dir) ==
  LET base == IF dir # <<>> /\ dir[1] = "/" THEN <<>> ELSE splitOn(Cwd, "/")
      segs == normalize(base \o splitOn(dir, "/"), <<>>)
  IN  IF segs = <<>> THEN <<"/">> ELSE joinSlash(segs)

\* lines 68-77
validateOutputDir(dir) ==
  IF dir.type # "string" THEN Fail("Output directory must be a string")
  ELSE IF Includes(dir.s, <<".", ".">>) \/ Includes(dir.s, <<NUL>>)
    THEN Fail("Invalid output directory")
  ELSE Ok(Str(resolve(dir.s)))

\* as validateFormat, but any string is accepted
validateFormat_anyString(fmt) ==
  IF fmt.type = "string" THEN Ok(fmt) ELSE Fail("Invalid format")

\* lines 85-91
validateFormat(fmt) ==
  IF fmt \in {Str(<<"c", "s", "v">>), Str(<<"j", "s", "o", "n">>),
              Str(<<"b", "o", "t", "h">>)}
  THEN Ok(fmt) ELSE Fail("Invalid format")

\* lines 10-13: the four fields, or the first validation error
construct(o) ==
  LET i == validateInterface(Or(o.interface, Str(Interface)))
      n == validateInterval(Or(o.interval, Num(DefaultInterval)))
      d == validateOutputDir(Or(o.outputDir, Str(DefaultOutputDir)))
      f == validateFormat(Or(o.format, Str(DefaultFormat)))
  IN  IF ~i.ok THEN i
      ELSE IF ~n.ok THEN n
      ELSE IF ~d.ok THEN d
      ELSE IF ~f.ok THEN f
      ELSE Ok([interface |-> i.value, interval |-> n.value,
               outputDir |-> d.value, format |-> f.value])

\* part_000 lines 329-332: the four fields of the second copy of the class
constructLegacy(o) ==
  Ok([interface |-> Or(o.interface, Str(Interface)),
      interval  |-> Or(o.interval, Num(DefaultInterval)),
      outputDir |-> Or(o.outputDir, Str(DefaultOutputDir)),
      format    |-> Or(o.format, Str(DefaultFormat))])

\* before new WiFiMonitor(options)
CtorNew ==
  LET Implementations == {"wifi-monitor.js", "part_000"}
      InterfaceOptions ==
        {Undefined, Str(<<>>), Num(0), Num(7),
         Str(<<"w", "l", "a", "n", "0">>),
         Str(<<"w", "l", "_", "a", "n", "-", "0">>),
         Str(<<"a", "a", "a", "a", "a", "a", "a", "a", "a", "a", "a", "a", "a", "a", "a", "a">>),
         Str(<<"a", "a", "a", "a", "a", "a", "a", "a", "a", "a", "a", "a", "a", "a", "a", "a", "a">>),
         Str(<<"w", "l", "a", "n", "0", ";", "i", "d">>),
         Str(<<"w", "l", "a", "n", "0", " ", "-", "h">>),
         Str(<<"w", "l", "a", "n", "0", "\n">>)}
      IntervalOptions ==
        {Undefined, Num(0), Num(999), Num(1000), Num(3600000), Num(3600001),
         Str(<<"2", "0", "0", "0">>), Str(<<"a", "b", "c">>)}
      OutputDirOptions ==
        {Undefined, Str(<<"/", "t", "m", "p", "/", "w">>),
         Str(<<"d", "a", "t", "a", "/", ".", "/", "r", "u", "n">>),
         Str(<<".", ".", "/", "w">>), Num(5)}
      FormatOptions ==
        {Undefined, Str(<<"c", "s", "v">>), Str(<<"j", "s", "o", "n">>),
         Str(<<"x", "m", "l">>)}
  IN  /\ impl \in Implementations
      /\ options \in [interface : InterfaceOptions, interval : IntervalOptions,
                      outputDir : OutputDirOptions, format : FormatOptions]
      /\ self = <<>> /\ ctorPc = "new" /\ thrown = ""
      /\ dirs \in {{}, {resolve(DefaultOutputDir)}}
      /\ execLog = {}

\* lines 8-23 (part_000 lines 328-342): new WiFiMonitor(options)
Construct ==
  /\ ctorPc = "new"
  /\ LET r == IF impl = "wifi-monitor.js" THEN construct(options)
              ELSE constructLegacy(options)
     IN  IF ~r.ok
         THEN /\ ctorPc' = "threw" /\ thrown' = r.error
              /\ UNCHANGED <<self, dirs>>
         ELSE IF r.value.outputDir.type # "string"
         THEN /\ ctorPc' = "threw" /\ thrown' = "ERR_INVALID_ARG_TYPE"
              /\ UNCHANGED <<self, dirs>>
         ELSE IF resolve(r.value.outputDir.s) \in dirs
         THEN /\ ctorPc' = "constructed" /\ self' = <<r.value>>
              /\ UNCHANGED <<thrown, dirs>>
         ELSE \E mkdirOk \in BOOLEAN :
                IF mkdirOk
                THEN /\ ctorPc' = "constructed" /\ self' = <<r.value>>
                     /\ dirs' = dirs \cup {resolve(r.value.outputDir.s)}
                     /\ UNCHANGED thrown
                ELSE /\ ctorPc' = "threw" /\ thrown' = "mkdirSync"
                     /\ UNCHANGED <<self, dirs>>
  /\ UNCHANGED <<impl, options, execLog>>

\* lines 285-291: the command of checkInterface (the second copy has none)
InvokeCheck ==
  /\ ctorPc = "constructed" /\ impl = "wifi-monitor.js"
  /\ execLog' = execLog \cup
       {[via |-> "execFile", file |-> <<"i", "w">>,
         args |-> <<<<"d", "e", "v">>, self[1].interface.s,
                    <<"i", "n", "f", "o">>>>]}
  /\ UNCHANGED <<impl, options, self, ctorPc, thrown, dirs>>

\* lines 323-329 (part_000 lines 498-500): the command of _performScan
InvokeScan ==
  /\ ctorPc = "constructed"
  /\ execLog' = execLog \cup
       {IF impl = "wifi-monitor.js"
        THEN [via |-> "execFile", file |-> <<"s", "u", "d", "o">>,
              args |-> <<<<"i", "w">>, <<"d", "e", "v">>,
                         self[1].interface.s, <<"s", "c", "a", "n">>>>]
        ELSE [via |-> "exec", file |-> <<"s", "h">>,
              args |-> <<<<"s", "u", "d", "o", " ", "i", "w", " ", "d", "e", "v", " ">>
                           \o toString(self[1].interface)
                           \o <<" ", "s", "c", "a", "n">>>>]}
  /\ UNCHANGED <<impl, options, self, ctorPc, thrown, dirs>>

\* a monitor of wifi-monitor.js constructed with the default options but
\* for the format, and no command invoked yet
FormatChars(f) ==
  CASE f = "csv" -> <<"c", "s", "v">> [] f = "json" -> <<"j", "s", "o", "n">>
    [] f = "both" -> <<"b", "o", "t", "h">>
Constructed(f) ==
  /\ impl = "wifi-monitor.js"
  /\ options = [interface |-> Undefined, interval |-> Undefined,
                outputDir |-> Undefined, format |-> Str(FormatChars(f))]
  /\ self = <<construct(options).value>>
  /\ ctorPc = "constructed" /\ thrown = ""
  /\ dirs = {resolve(DefaultOutputDir)}
  /\ execLog = {}

-----------------------------------------------------------------------------
(* The CSV file: _escapeCSVValue and saveToCSV write it, _parseCSVLine and  *)
(* analyzeCSV read it back.  Header names are strings of characters, for    *)
(* they pass through the file.                                              *)

Null == [type |-> "null", s |-> <<>>, n |-> 0]

Quote == "\""

\* lines 389-394
Headers == <<
  <<"t", "i", "m", "e", "s", "t", "a", "m", "p">>,
  <<"i", "n", "t", "e", "r", "f", "a", "c", "e">>,
  <<"b", "s", "s", "i", "d">>,
  <<"s", "s", "i", "d">>,
  <<"f", "r", "e", "q", "_", "m", "h", "z">>,
  <<"c", "h", "a", "n", "n", "e", "l">>,
  <<"s", "i", "g", "n", "a", "l", "_", "d", "b", "m">>,
  <<"d", "i", "s", "t", "a", "n", "c", "e", "_", "m", "e", "t", "e", "r", "s">>,
  <<"d", "i", "s", "t", "a", "n", "c", "e", "_", "m", "i", "n">>,
  <<"d", "i", "s", "t", "a", "n", "c", "e", "_", "m", "a", "x">>,
  <<"l", "a", "s", "t", "_", "s", "e", "e", "n", "_", "m", "s">>,
  <<"c", "a", "p", "a", "b", "i", "l", "i", "t", "y">>,
  <<"s", "e", "c", "u", "r", "i", "t", "y">>,
  <<"b", "e", "a", "c", "o", "n", "_", "i", "n", "t", "e", "r", "v", "a", "l">>,
  <<"c", "o", "u", "n", "t", "r", "y">>,
  <<"h", "t", "_", "c", "a", "p">>,
  <<"v", "h", "t", "_", "c", "a", "p">>,
  <<"h", "e", "_", "c", "a", "p">>>>

\* ap[h]
Get(ap, h) == IF Has(ap, h) THEN ap[h] ELSE Undefined

\* str.replace(/"/g, '""')
RECURSIVE doubleQuotes(_)
doubleQuotes(s) ==
  IF s = <<>> THEN <<>>
  ELSE (IF Head(s) = Quote THEN <<Quote, Quote>> ELSE <<Head(s)>>)
         \o doubleQuotes(Tail(s))

\* as _escapeCSVValue, without the test of the first character
escapeCSVValue_noFormulaGuard(value) ==
  IF value = Undefined \/ value = Null THEN <<>>
  ELSE LET str == toString(value)
       IN  IF \E k \in 1..Len(str) : str[k] \in {",", Quote, "\n", "\r"}
             THEN <<Quote>> \o doubleQuotes(str) \o <<Quote>>
           ELSE str

\* lines 364-379
escapeCSVValue(value) ==
  IF value = Undefined \/ value = Null THEN <<>>
  ELSE LET str == toString(value)
       IN  IF str # <<>> /\ str[1] \in {"=", "+", "-", "@", "\t"}
             THEN <<Quote>> \o doubleQuotes(str) \o <<Quote>>
           ELSE IF \E k \in 1..Len(str) : str[k] \in {",", Quote, "\n", "\r"}
             THEN <<Quote>> \o doubleQuotes(str) \o <<Quote>>
           ELSE str

\* Array.prototype.join(',')
RECURSIVE joinComma(_)
joinComma(vs) ==
  IF vs = <<>> THEN <<>>
  ELSE IF Len(vs) = 1 THEN vs[1]
  ELSE vs[1] \o <<",">> \o joinComma(Tail(vs))

\* line 414: headers.map(h => this._escapeCSVValue(ap[h]))
csvRow(ap) == [i \in 1..Len(Headers) |-> escapeCSVValue(Get(ap, Headers[i]))]

\* lines 396-416: the content that saveToCSV appends to the file
RECURSIVE csvRows(_)
csvRows(as) ==
  IF as = <<>> THEN <<>>
  ELSE joinComma(csvRow(Head(as))) \o <<"\n">> \o csvRows(Tail(as))
csvContent(as, append, fileExists) ==
  (IF ~append \/ ~fileExists THEN joinComma(Headers) \o <<"\n">> ELSE <<>>)
    \o csvRows(as)

\* lines 618-644: the loop of _parseCSVLine from position i.  The
\* characters up to the next double quote or comma take the last branch
\* (current += char) and are appended in one step.
RECURSIVE parseCSVLineFrom(_, _, _, _, _)
parseCSVLineFrom(line, i, current, inQuotes, values) ==
  LET stops == {k \in i..Len(line) : line[k] \in {Quote, ","}}
  IN  IF stops = {}
        THEN Append(values, current \o SubSeq(line, i, Len(line)))
      ELSE
        LET k    == CHOOSE j \in stops : \A m \in stops : j <= m
            cur  == current \o SubSeq(line, i, k - 1)
            char == line[k]
        IN  IF char = Quote
              THEN IF inQuotes /\ k + 1 <= Len(line) /\ line[k + 1] = Quote
                     THEN parseCSVLineFrom(line, k + 2, Append(cur, Quote),
                                           inQuotes, values)
                   ELSE parseCSVLineFrom(line, k + 1, cur, ~inQuotes, values)
            ELSE IF ~inQuotes
              THEN parseCSVLineFrom(line, k + 1, <<>>, inQuotes,
                                    Append(values, cur))
            ELSE parseCSVLineFrom(line, k + 1, Append(cur, char), inQuotes,
                                  values)
parseCSVLine(line) == parseCSVLineFrom(line, 1, <<>>, FALSE, <<>>)

\* str.replace(/""/g, '"')
RECURSIVE undoubleQuotes(_)
undoubleQuotes(s) ==
  IF Len(s) < 2 THEN s
  ELSE IF s[1] = Quote /\ s[2] = Quote
    THEN <<Quote>> \o undoubleQuotes(SubSeq(s, 3, Len(s)))
  ELSE <<s[1]>> \o undoubleQuotes(Tail(s))

\* lines 685-688
stripQuotes(value) ==
  IF value # <<>> /\ value[1] = Quote /\ value[Len(value)] = Quote
    THEN undoubleQuotes(IF Len(value) < 2 THEN <<>>
                        ELSE SubSeq(value, 2, Len(value) - 1))
  ELSE value

\* Array.prototype.filter(l => l.trim())
RECURSIVE nonBlank(_)
nonBlank(ls) ==
  IF ls = <<>> THEN <<>>
  ELSE (IF trim(Head(ls)) # <<>> THEN <<Head(ls)>> ELSE <<>>)
         \o nonBlank(Tail(ls))

\* lines 681-692: the object built from one data line
csvObject(headers, line) ==
  LET values == parseCSVLine(line)
  IN  [h \in {headers[i] : i \in 1..Len(headers)} |->
         LET i == CHOOSE j \in 1..Len(headers) :
                    /\ headers[j] = h
                    /\ \A k \in (j + 1)..Len(headers) : headers[k] # h
         IN  stripQuotes(IF i <= Len(values) THEN values[i] ELSE <<>>)]

\* lines 672-692 of analyzeCSV: the records read from the content of the
\* file, <<>> when there are fewer than two lines
analyzeCSV(content) ==
  LET ls == nonBlank(split(content))
  IN  IF Len(ls) < 2 THEN <<>>
      ELSE [r \in 1..(Len(ls) - 1) |-> csvObject(parseCSVLine(ls[1]), ls[r + 1])]

\* the characters of the values written
CsvStrings ==
  LET CsvAlphabet == {"a", ",", Quote, "=", "+", "-", "@", "\t", "\n", "\r"}
  IN  UNION {[1..n -> CsvAlphabet] : n \in 0..MaxValueLen}

\* the columns of the header row that the records considered fill
Column ==
  [ timestamp |->
     Headers[1],
    interface |->
     Headers[2],
    bssid |->
     Headers[3],
    ssid |->
     Headers[4],
    freq_mhz |->
     Headers[5],
    signal_dbm |->
     Headers[7],
    country |->
     Headers[15] ]

\* the records written: a network as the parser emits it, of any name
CsvRecords ==
  {(Column.timestamp :> Str(<<"2", "0", "2", "6", "-", "0", "1", "-", "0", "1", "T", "0", "0", ":", "0", "0", ":", "0", "0", ".", "0", "0", "0", "Z">>))
     @@ (Column.interface :> Str(Interface))
     @@ (Column.bssid :> Str(<<"a", "a", ":", "b", "b", ":", "c", "c", ":", "d", "d", ":", "e", "e", ":", "f", "f">>))
     @@ (Column.ssid :> Str(s))
     @@ (Column.freq_mhz :> Num(2437))
     @@ (IF sig = Undefined THEN <<>> ELSE (Column.signal_dbm :> sig))
     @@ (IF c = Undefined THEN <<>> ELSE (Column.country :> c)) :
   s \in CsvStrings,
   sig \in {Undefined, Num(0 - 60)},
   c \in {Undefined, Null, Str(<<"U", "S">>), Str(<<",">>)}}

\* no file written yet
CsvIdle ==
  /\ csvAps = <<>> /\ row = <<>> /\ fileText = <<>> /\ data = <<>>
  /\ csvPc = "idle"

\* lines 387-424: saveToCSV(aps) on a file that does not exist
SaveToCSV ==
  /\ csvPc = "ready"
  /\ \E written \in BOOLEAN :
       IF written
         THEN /\ fileText' = fileText \o csvContent(csvAps, FALSE, FALSE)
              /\ csvPc' = "saved"
       ELSE /\ fileText' = fileText
            /\ csvPc' = "failed"
  /\ row' = csvRow(csvAps[Len(csvAps)])
  /\ UNCHANGED <<csvAps, data>>

\* lines 650-692: analyzeCSV reads the file
AnalyzeCSV ==
  /\ csvPc = "saved"
  /\ data' = analyzeCSV(fileText)
  /\ csvPc' = "analyzed"
  /\ UNCHANGED <<csvAps, row, fileText>>

-----------------------------------------------------------------------------
(* One call of calculateDistance *)

\* no call made
DistIdle == distArgs = <<>> /\ distResult = <<>>

\* lines 106-131: the call returns
CalculateDistance ==
  /\ distArgs # <<>> /\ distResult = <<>>
  /\ distResult' = <<calculateDistance(distArgs[1], distArgs[2])>>
  /\ UNCHANGED distArgs

-----------------------------------------------------------------------------
(* The external scan command: what one invocation hands to its callback *)

BusySignature ==
  <<"D", "e", "v", "i", "c", "e", " ", "o", "r", " ", "r", "e", "s",
      "o", "u", "r", "c", "e", " ", "b", "u", "s", "y">>

ScanErrorPrefix ==
  <<"S", "c", "a", "n", " ", "e", "r", "r", "o", "r", ":", " ">>

\* error.message of a failed command, and the messages of parser errors.
\* TimedOut is the message of the error execFile makes when it kills the
\* command at the end of its timeout (line 329): no output, no exit code
ErrorMessage ==
  [ TimedOut |->
     <<"C", "o", "m", "m", "a", "n", "d", " ", "f", "a", "i", "l", "e", "d", ":", " ", "s", "u", "d", "o", " ", "i", "w", " ", "d", "e", "v", " ", "w", "l", "p", "3", "s", "0", " ", "s", "c", "a", "n", "\n">>,
    Busy |->
     <<"C", "o", "m", "m", "a", "n", "d", " ", "f", "a", "i", "l", "e", "d", ":", " ", "s", "u", "d", "o", " ", "i", "w", " ", "d", "e", "v", " ", "w", "l", "p", "3", "s", "0", " ", "s", "c", "a", "n", "\n", "c", "o", "m", "m", "a", "n", "d", " ", "f", "a", "i", "l", "e", "d", ":", " ", "D", "e", "v", "i", "c", "e", " ", "o", "r", " ", "r", "e", "s", "o", "u", "r", "c", "e", " ", "b", "u", "s", "y", " ", "(", "-", "1", "6", ")", "\n">>,
    Denied |->
     <<"C", "o", "m", "m", "a", "n", "d", " ", "f", "a", "i", "l", "e", "d", ":", " ", "s", "u", "d", "o", " ", "i", "w", " ", "d", "e", "v", " ", "w", "l", "p", "3", "s", "0", " ", "s", "c", "a", "n", "\n", "c", "o", "m", "m", "a", "n", "d", " ", "f", "a", "i", "l", "e", "d", ":", " ", "O", "p", "e", "r", "a", "t", "i", "o", "n", " ", "n", "o", "t", " ", "p", "e", "r", "m", "i", "t", "t", "e", "d", " ", "(", "-", "1", ")", "\n">>,
    BusyLike |->
     <<"C", "o", "m", "m", "a", "n", "d", " ", "f", "a", "i", "l", "e", "d", ":", " ", "d", "e", "v", "i", "c", "e", " ", "b", "u", "s", "y">>,
    ParseBusyText |->
     <<"l", "i", "n", "e", " ", "3", ":", " ", "D", "e", "v", "i", "c", "e", " ", "o", "r", " ", "r", "e", "s", "o", "u", "r", "c", "e", " ", "b", "u", "s", "y">>,
    ParseOther |->
     <<"U", "n", "e", "x", "p", "e", "c", "t", "e", "d", " ", "e", "n", "d", " ", "o", "f", " ", "i", "n", "p", "u", "t">> ]

\* the standard output of a command that succeeded
Stdout ==
  [ OneAp |->
     <<"B", "S", "S", " ", "a", "a", ":", "b", "b", ":", "c", "c", ":", "d", "d", ":", "e", "e", ":", "0", "1", "(", "o", "n", " ", "w", "l", "p", "3", "s", "0", ")", "\n", "\t", "f", "r", "e", "q", ":", " ", "2", "4", "3", "7", "\n", "\t", "s", "i", "g", "n", "a", "l", ":", " ", "-", "6", "0", ".", "0", "0", " ", "d", "B", "m", "\n">>,
    None |->
     <<>> ]

Err_Warn ==
  <<"s", "c", "a", "n", " ", "a", "b", "o", "r", "t", "e", "d", "!",
      "\n">>

\* execFile's callback arguments: error is <<>> (null) or <<message>>
CommandOutcomes ==
  {[error |-> <<>>, stdout |-> o, stderr |-> e] :
      o \in {Stdout.OneAp, Stdout.None}, e \in {<<>>, Err_Warn}}
  \cup {[error |-> <<m>>, stdout |-> <<>>, stderr |-> <<>>] :
      m \in {ErrorMessage.Busy, ErrorMessage.Denied, ErrorMessage.BusyLike,
             ErrorMessage.TimedOut}}

-----------------------------------------------------------------------------
(* scan and _performScan *)

DefaultRetries == 3
DefaultRetryDelay == 1000

NoResult == [kind |-> "none", value |-> <<>>]
\* v is <<>> for undefined, else <<the array>>
Returned(v) == [kind |-> "returned", value |-> v]
Threw(message) == [kind |-> "threw", value |-> message]

IdleFrame ==
  [retries |-> 0, retryDelay |-> 0, attempt |-> 0, pc |-> "idle",
   result |-> NoResult, invoked |-> 0, slept |-> <<>>, settled |-> <<>>,
   warned |-> FALSE]

\* lines 323-346: the settlement of the promise _performScan returns
performScan(out, iface, t) ==
  IF out.error # <<>>
  THEN [kind |-> "rejected", value |-> ScanErrorPrefix \o out.error[1],
        warned |-> FALSE]
  ELSE [kind |-> "resolved", value |-> parseIwScan(out.stdout, iface, t),
        warned |-> out.stderr # <<>>
                    /\ ~Includes(out.stderr, <<"B", "S", "S">>)]

\* the messages of the errors a parser throws.  parseIwScan of this file
\* has no throw statement and calls nothing that throws on a string, so the
\* catch of lines 340-342 runs only for a parseIwScan that replaces it (the
\* method is looked up on the object at line 339).
ParserErrors == {ErrorMessage.ParseBusyText, ErrorMessage.ParseOther}

\* lines 323-346, when this.parseIwScan(stdout) throws an error of the
\* given message (the prefix is line 341's)
performScanCaught(out, message) ==
  LET ParseErrorPrefix == <<"P", "a", "r", "s", "e", " ", "e", "r", "r", "o", "r", ":", " ">>
  IN  IF out.error # <<>>
      THEN [kind |-> "rejected", value |-> ScanErrorPrefix \o out.error[1],
            warned |-> FALSE]
      ELSE [kind |-> "rejected", value |-> ParseErrorPrefix \o message,
            warned |-> out.stderr # <<>>
                        /\ ~Includes(out.stderr, <<"B", "S", "S">>)]

\* line 300: the loop test, and line 302 when it passes; when it fails the
\* function body ends and the call returns undefined
scanLoop(f) ==
  IF f.attempt <= f.retries
  THEN [f EXCEPT !.pc = "exec", !.invoked = @ + 1]
  ELSE [f EXCEPT !.pc = "done", !.result = Returned(<<>>)]

\* line 299-302: the call, up to its first await
scanCall(retries, retryDelay) ==
  scanLoop([IdleFrame EXCEPT !.retries = retries, !.retryDelay = retryDelay,
                             !.attempt = 1, !.pc = "loop"])

\* as isBusy, but any mention of "busy" counts
isBusy_loose(message) == Includes(message, <<"b", "u", "s", "y">>)

\* line 305
isBusy(message) == Includes(message, BusySignature)

\* as scanSettle, but the next attempt follows a busy failure at once
scanSettle_noSleep(f, out, p) ==
  LET g == [f EXCEPT !.settled = Append(@, out), !.warned = p.warned]
  IN  IF p.kind = "resolved"
      THEN [g EXCEPT !.pc = "done", !.result = Returned(<<p.value>>)]
      ELSE IF isBusy(p.value) /\ f.attempt < f.retries
      THEN scanLoop([g EXCEPT !.attempt = @ + 1, !.pc = "loop"])
      ELSE [g EXCEPT !.pc = "done", !.result = Threw(p.value)]

\* as scanSettle, but the delay grows with the attempt number
scanSettle_backoff(f, out, p) ==
  LET g == [f EXCEPT !.settled = Append(@, out), !.warned = p.warned]
  IN  IF p.kind = "resolved"
      THEN [g EXCEPT !.pc = "done", !.result = Returned(<<p.value>>)]
      ELSE IF isBusy(p.value) /\ f.attempt < f.retries
      THEN [g EXCEPT !.pc = "sleep",
                     !.slept = Append(@, f.retryDelay * f.attempt)]
      ELSE [g EXCEPT !.pc = "done", !.result = Threw(p.value)]

\* lines 302-314: the attempt's promise settles
scanSettle(f, out, p) ==
  LET g == [f EXCEPT !.settled = Append(@, out), !.warned = p.warned]
  IN  IF p.kind = "resolved"
      THEN [g EXCEPT !.pc = "done", !.result = Returned(<<p.value>>)]
      ELSE IF isBusy(p.value) /\ f.attempt < f.retries
      THEN [g EXCEPT !.pc = "sleep", !.slept = Append(@, f.retryDelay)]
      ELSE [g EXCEPT !.pc = "done", !.result = Threw(p.value)]

\* as scanWake, but the attempt is not counted
scanWake_sameAttempt(f) == scanLoop([f EXCEPT !.pc = "loop"])

\* lines 309-310, 300: the sleep is over, attempt++ and the loop goes on
scanWake(f) == scanLoop([f EXCEPT !.attempt = @ + 1, !.pc = "loop"])

-----------------------------------------------------------------------------
(* One call of scan as a state machine *)

ScanCall ==
  LET RetriesArgs == (0 - 1)..MaxRetries
      RetryDelayArgs == {1, DefaultRetryDelay}
  IN  /\ sc.pc = "idle"
      /\ \E r \in RetriesArgs, d \in RetryDelayArgs : sc' = scanCall(r, d)

ScanSettle ==
  /\ sc.pc = "exec"
  /\ \E out \in CommandOutcomes :
       sc' = scanSettle(sc, out, performScan(out, Interface, now))

ScanWake ==
  /\ sc.pc = "sleep"
  /\ sc' = scanWake(sc)

\* lines 302-314, 338-343: the command succeeds and the parser throws
ScanSettleParserThrows ==
  /\ sc.pc = "exec"
  /\ \E out \in CommandOutcomes, m \in ParserErrors :
       /\ out.error = <<>>
       /\ sc' = scanSettle(sc, out, performScanCaught(out, m))

-----------------------------------------------------------------------------
(* The monitor: startMonitoring, its timer callback, scanOnce, the saves   *)
(* and stopMonitoring.  A step is what runs between two awaits.            *)

Formats == {"csv", "json", "both"}
AdvisoryAfter == 5

FreeCycle ==
  [stage |-> "free", scan |-> IdleFrame, initial |-> FALSE,
   header |-> FALSE, scan_count |-> 0]

InFlight == {c \in 1..MaxCycles : cycles[c].stage # "free"}
FreeSlot == CHOOSE c \in 1..MaxCycles :
              cycles[c].stage = "free"
              /\ \A d \in 1..(c - 1) : cycles[d].stage # "free"
Started == successfulScans + failedScans + Cardinality(InFlight)
Running == exitCode = 0 - 1

\* the outcomes of the scan command seen by the monitoring loop
CycleOutcomes ==
  {out \in CommandOutcomes :
     \/ out.error = <<>> /\ out.stdout = Stdout.OneAp /\ out.stderr = <<>>
     \/ out.error \in {<<ErrorMessage.Busy>>, <<ErrorMessage.Denied>>}}

\* lines 459-463: scanOnce is called and calls scan() with its defaults
scanOnce(isInitial) ==
  [FreeCycle EXCEPT !.stage = "scan",
                    !.scan = scanCall(DefaultRetries, DefaultRetryDelay),
                    !.initial = isInitial]

\* lines 431-446: saveToJSON up to its await; it reads this.scanCount
saveToJSON(cy) == [cy EXCEPT !.stage = "jsonWrite", !.scan_count = scanCount]

\* lines 387-401: saveToCSV up to its first await
saveToCSV(cy) == [cy EXCEPT !.stage = "csvAccess"]

\* lines 512-539: the call of startMonitoring, up to the interface check
startMonitoring ==
  /\ Running
  /\ lastCall' = "startMonitoring"
  /\ IF isMonitoring
     THEN /\ console' = {"already"}
          /\ UNCHANGED <<isMonitoring, successfulScans, failedScans, startPc,
                         consecutiveFailed>>
     ELSE /\ console' = {"banner"}
          /\ isMonitoring' = TRUE
          /\ failedScans' = 0
          /\ successfulScans' = 0
          /\ consecutiveFailed' = 0
          /\ startPc' = "check"
  /\ UNCHANGED <<scanCount, monitoringInterval, cycles, exitCode, format,
                 csvFile, jsonFiles>>

\* as checkInterfaceDone, but isMonitoring is left set when the check fails
checkInterfaceDone_keepFlag ==
  /\ Running /\ startPc = "check"
  /\ lastCall' = "checkInterface"
  /\ \E interfaceExists \in BOOLEAN :
       IF ~interfaceExists
       THEN /\ console' = {"noInterface"}
            /\ exitCode' = 1
            /\ UNCHANGED <<startPc, cycles, isMonitoring>>
       ELSE /\ console' = {"scanning"}
            /\ startPc' = "initial"
            /\ cycles' = [cycles EXCEPT ![FreeSlot] = scanOnce(TRUE)]
            /\ UNCHANGED <<isMonitoring, exitCode>>
  /\ UNCHANGED <<scanCount, successfulScans, failedScans, monitoringInterval,
                 consecutiveFailed, format, csvFile, jsonFiles>>

\* as checkInterfaceDone, but the timer is armed without a first scan
checkInterfaceDone_noInitialScan ==
  /\ Running /\ startPc = "check"
  /\ lastCall' = "checkInterface"
  /\ \E interfaceExists \in BOOLEAN :
       IF ~interfaceExists
       THEN /\ console' = {"noInterface"}
            /\ isMonitoring' = FALSE
            /\ exitCode' = 1
            /\ UNCHANGED <<startPc, monitoringInterval>>
       ELSE /\ console' = {}
            /\ startPc' = "running"
            /\ monitoringInterval' = "armed"
            /\ UNCHANGED <<isMonitoring, exitCode>>
  /\ UNCHANGED <<scanCount, successfulScans, failedScans, cycles,
                 consecutiveFailed, format, csvFile, jsonFiles>>

\* as checkInterfaceDone, but the timer is armed before the first scan
checkInterfaceDone_armsTimerFirst ==
  /\ Running /\ startPc = "check"
  /\ lastCall' = "checkInterface"
  /\ \E interfaceExists \in BOOLEAN :
       IF ~interfaceExists
       THEN /\ console' = {"noInterface"}
            /\ isMonitoring' = FALSE
            /\ exitCode' = 1
            /\ UNCHANGED <<startPc, cycles, monitoringInterval>>
       ELSE /\ console' = {"scanning"}
            /\ startPc' = "initial"
            /\ monitoringInterval' = "armed"
            /\ cycles' = [cycles EXCEPT ![FreeSlot] = scanOnce(TRUE)]
            /\ UNCHANGED <<isMonitoring, exitCode>>
  /\ UNCHANGED <<scanCount, successfulScans, failedScans,
                 consecutiveFailed, format, csvFile, jsonFiles>>

\* lines 285-291, 539-550: the interface check settles
checkInterfaceDone ==
  /\ Running /\ startPc = "check"
  /\ lastCall' = "checkInterface"
  /\ \E interfaceExists \in BOOLEAN :
       IF ~interfaceExists
       THEN /\ console' = {"noInterface"}
            /\ isMonitoring' = FALSE
            /\ exitCode' = 1
            /\ UNCHANGED <<startPc, cycles>>
       ELSE /\ console' = {"scanning"}
            /\ startPc' = "initial"
            /\ cycles' = [cycles EXCEPT ![FreeSlot] = scanOnce(TRUE)]
            /\ UNCHANGED <<isMonitoring, exitCode>>
  /\ UNCHANGED <<scanCount, successfulScans, failedScans, monitoringInterval,
                 consecutiveFailed, format, csvFile, jsonFiles>>

\* the model lets cycles overlap among the first MaxScans cycles and then
\* runs them one after the other up to MaxLongRun cycles
CanStartCycle ==
  \/ Cardinality(InFlight) < MaxCycles /\ Started < MaxScans
  \/ InFlight = {} /\ Started < MaxLongRun

\* as callbackRuns, but a tick is dropped while a cycle is in flight
callbackRuns_guarded == isMonitoring /\ InFlight = {}

\* line 558: the test the timer callback makes
callbackRuns == isMonitoring

\* lines 557-560: a tick of the interval timer
timerCallback ==
  /\ Running /\ monitoringInterval = "armed"
  /\ CanStartCycle
  /\ lastCall' = "timerCallback"
  /\ IF callbackRuns
     THEN /\ console' = {"scanning"}
          /\ cycles' = [cycles EXCEPT ![FreeSlot] = scanOnce(FALSE)]
     ELSE /\ console' = {}
          /\ UNCHANGED cycles
  /\ UNCHANGED <<isMonitoring, scanCount, successfulScans, failedScans,
                 monitoringInterval, startPc, exitCode, consecutiveFailed,
                 format, csvFile, jsonFiles>>

\* line 566: the test for the advisory, on the counters after the increment
tooManyFailures(failed, successful) ==
  failed > AdvisoryAfter /\ successful = 0

\* as cycleOver, but the loop gives up after too many failures
cycleOver_giveUp(c, ok, printed) ==
  /\ cycles' = [cycles EXCEPT ![c] = FreeCycle]
  /\ scanCount' = IF ok THEN scanCount + 1 ELSE scanCount
  /\ successfulScans' = IF ok THEN successfulScans + 1 ELSE successfulScans
  /\ failedScans' = IF ok THEN failedScans ELSE failedScans + 1
  /\ consecutiveFailed' = IF ok THEN 0 ELSE consecutiveFailed + 1
  /\ console' = printed
  /\ startPc' = IF cycles[c].initial THEN "running" ELSE startPc
  /\ IF ~ok /\ tooManyFailures(failedScans', successfulScans')
     THEN isMonitoring' = FALSE /\ monitoringInterval' = "cleared"
     ELSE /\ UNCHANGED isMonitoring
          /\ monitoringInterval' = IF cycles[c].initial THEN "armed"
                                   ELSE monitoringInterval
  /\ UNCHANGED exitCode

\* as cycleOver, but a failure of the first scan is not counted
cycleOver_uncountedInitial(c, ok, printed) ==
  /\ cycles' = [cycles EXCEPT ![c] = FreeCycle]
  /\ scanCount' = IF ok THEN scanCount + 1 ELSE scanCount
  /\ successfulScans' = IF ok THEN successfulScans + 1 ELSE successfulScans
  /\ failedScans' = IF ok \/ cycles[c].initial THEN failedScans
                    ELSE failedScans + 1
  /\ consecutiveFailed' = IF ok THEN 0 ELSE consecutiveFailed + 1
  /\ IF cycles[c].initial
     THEN /\ monitoringInterval' = "armed"
          /\ startPc' = "running"
          /\ console' = printed
     ELSE /\ UNCHANGED <<monitoringInterval, startPc>>
          /\ console' = printed \cup
               (IF ~ok /\ tooManyFailures(failedScans', successfulScans')
                THEN {"advisory"} ELSE {})
  /\ UNCHANGED <<isMonitoring, exitCode>>

\* lines 502-507 and 549-575: scanOnce is over (it returned when ok, threw
\* otherwise) and its caller counts the outcome; the initial cycle then
\* arms the timer.  oneShot is the cycle that the command line started for
\* --once, 0 when there is none.
cycleOver(c, ok, printed) ==
  IF c = oneShot
  THEN \* lines 859-864: the caller is the command line, which exits
       /\ cycles' = [cycles EXCEPT ![c] = FreeCycle]
       /\ scanCount' = IF ok THEN scanCount + 1 ELSE scanCount
       /\ exitCode' = IF ok THEN 0 ELSE 1
       /\ console' = printed
       /\ UNCHANGED <<isMonitoring, successfulScans, failedScans,
                      consecutiveFailed, monitoringInterval, startPc>>
  ELSE
  /\ cycles' = [cycles EXCEPT ![c] = FreeCycle]
  /\ scanCount' = IF ok THEN scanCount + 1 ELSE scanCount
  /\ successfulScans' = IF ok THEN successfulScans + 1 ELSE successfulScans
  /\ failedScans' = IF ok THEN failedScans ELSE failedScans + 1
  /\ consecutiveFailed' = IF ok THEN 0 ELSE consecutiveFailed + 1
  /\ IF cycles[c].initial
     THEN /\ monitoringInterval' = "armed"
          /\ startPc' = "running"
          /\ console' = printed
     ELSE /\ UNCHANGED <<monitoringInterval, startPc>>
          /\ console' = printed \cup
               (IF ~ok /\ tooManyFailures(failedScans', successfulScans')
                THEN {"advisory"} ELSE {})
  /\ UNCHANGED <<isMonitoring, exitCode>>

\* as afterCSV, but a failed CSV save ends the cycle's saves
afterCSV_stopOnError(c, cy, printed) ==
  IF format \in {"json", "both"} /\ "csvError" \notin printed
  THEN /\ cycles' = [cycles EXCEPT ![c] = saveToJSON(cy)]
       /\ console' = printed
       /\ UNCHANGED <<isMonitoring, scanCount, successfulScans, failedScans,
                      monitoringInterval, startPc, exitCode,
                      consecutiveFailed>>
  ELSE cycleOver(c, TRUE, printed \cup {"top5"})

\* lines 476-485: after the CSV part of scanOnce
afterCSV(c, cy, printed) ==
  IF format \in {"json", "both"}
  THEN /\ cycles' = [cycles EXCEPT ![c] = saveToJSON(cy)]
       /\ console' = printed
       /\ UNCHANGED <<isMonitoring, scanCount, successfulScans, failedScans,
                      monitoringInterval, startPc, exitCode,
                      consecutiveFailed>>
  ELSE cycleOver(c, TRUE, printed \cup {"top5"})

\* lines 302-314 and 463-476: an attempt of a cycle's scan settles
scanSettles(c) ==
  /\ Running /\ cycles[c].stage = "scan" /\ cycles[c].scan.pc = "exec"
  /\ lastCall' = "scanSettles"
  /\ \E out \in CycleOutcomes :
       LET f  == scanSettle(cycles[c].scan, out,
                            performScan(out, Interface, now))
           cy == [cycles[c] EXCEPT !.scan = f]
       IN  IF f.pc = "sleep"
           THEN /\ cycles' = [cycles EXCEPT ![c] = cy]
                /\ console' = {"busyRetry"}
                /\ UNCHANGED <<isMonitoring, scanCount, successfulScans,
                               failedScans, monitoringInterval, startPc,
                               exitCode, consecutiveFailed>>
           ELSE IF f.result.kind = "threw"
           THEN cycleOver(c, FALSE, {"scanError"})
           ELSE IF format \in {"csv", "both"}
           THEN /\ cycles' = [cycles EXCEPT ![c] = saveToCSV(cy)]
                /\ console' = {"found"}
                /\ UNCHANGED <<isMonitoring, scanCount, successfulScans,
                               failedScans, monitoringInterval, startPc,
                               exitCode, consecutiveFailed>>
           ELSE afterCSV(c, cy, {"found"})
  /\ UNCHANGED <<format, csvFile, jsonFiles>>

\* lines 309-310: the sleep between two attempts is over
scanWakes(c) ==
  /\ Running /\ cycles[c].stage = "scan" /\ cycles[c].scan.pc = "sleep"
  /\ lastCall' = "scanWakes"
  /\ console' = {}
  /\ cycles' = [cycles EXCEPT ![c].scan = scanWake(@)]
  /\ UNCHANGED <<isMonitoring, scanCount, successfulScans, failedScans,
                 monitoringInterval, startPc, exitCode, consecutiveFailed,
                 format, csvFile, jsonFiles>>

\* lines 398-419: fs.access settles; the header goes into the content when
\* the file was not found
csvAccessDone(c) ==
  /\ Running /\ cycles[c].stage = "csvAccess"
  /\ lastCall' = "csvAccessDone"
  /\ console' = {}
  /\ cycles' = [cycles EXCEPT ![c].stage = "csvAppend",
                              ![c].header = ~csvFile.exists]
  /\ UNCHANGED <<isMonitoring, scanCount, successfulScans, failedScans,
                 monitoringInterval, startPc, exitCode, consecutiveFailed,
                 format, csvFile, jsonFiles>>

\* lines 418-423 and 468-474: fs.appendFile settles
csvAppendDone(c) ==
  /\ Running /\ cycles[c].stage = "csvAppend"
  /\ lastCall' = "csvAppendDone"
  /\ \E written \in BOOLEAN :
       /\ csvFile' = IF written
                     THEN [exists  |-> TRUE,
                           headers |-> csvFile.headers
                                         + (IF cycles[c].header THEN 1 ELSE 0)]
                     ELSE csvFile
       /\ afterCSV(c, cycles[c], IF written THEN {"csv"} ELSE {"csvError"})
  /\ UNCHANGED <<format, jsonFiles>>

\* lines 447-452 and 477-502: fs.writeFile settles
jsonWriteDone(c) ==
  /\ Running /\ cycles[c].stage = "jsonWrite"
  /\ lastCall' = "jsonWriteDone"
  /\ \E written \in BOOLEAN :
       /\ jsonFiles' = IF written
                       THEN jsonFiles \cup {cycles[c].scan_count}
                       ELSE jsonFiles
       /\ cycleOver(c, TRUE,
                    (IF written THEN {"json"} ELSE {"jsonError"})
                      \cup {"top5"})
  /\ UNCHANGED <<format, csvFile>>

\* as stopMonitoring, but the interval timer is left armed
stopMonitoring_keepTimer ==
  /\ Running
  /\ lastCall' = "stopMonitoring"
  /\ IF ~isMonitoring
     THEN /\ console' = {}
          /\ UNCHANGED <<isMonitoring, exitCode>>
     ELSE /\ console' = {"stopping", "statistics"}
          /\ isMonitoring' = FALSE
          /\ exitCode' = 0
  /\ UNCHANGED <<scanCount, successfulScans, failedScans, startPc, cycles,
                 consecutiveFailed, format, csvFile, jsonFiles,
                 monitoringInterval>>

\* as stopMonitoring, but without the test of isMonitoring
stopMonitoring_noGuard ==
  /\ Running
  /\ lastCall' = "stopMonitoring"
  /\ console' = {"stopping", "statistics"}
  /\ isMonitoring' = FALSE
  /\ monitoringInterval' = IF monitoringInterval # "unset"
                           THEN "cleared" ELSE monitoringInterval
  /\ exitCode' = 0
  /\ UNCHANGED <<scanCount, successfulScans, failedScans, startPc, cycles,
                 consecutiveFailed, format, csvFile, jsonFiles>>

\* lines 586-610
stopMonitoring ==
  /\ Running
  /\ lastCall' = "stopMonitoring"
  /\ IF ~isMonitoring
     THEN /\ console' = {}
          /\ UNCHANGED <<isMonitoring, monitoringInterval, exitCode>>
     ELSE /\ console' = {"stopping", "statistics"}
          /\ isMonitoring' = FALSE
          /\ monitoringInterval' = IF monitoringInterval # "unset"
                                   THEN "cleared" ELSE monitoringInterval
          /\ exitCode' = 0
  /\ UNCHANGED <<scanCount, successfulScans, failedScans, startPc, cycles,
                 consecutiveFailed, format, csvFile, jsonFiles>>

-----------------------------------------------------------------------------
(* The command line: lines 785-869.  The script runs to its end in one step *)
(* (CliMain); what it started then goes on: the analysis, the one scan of  *)
(* --once, or the monitoring loop.                                         *)

\* the option names the script tests for
Flag ==
  [ help |->
     <<"-", "-", "h", "e", "l", "p">>,
    h |->
     <<"-", "h">>,
    i |->
     <<"-", "i">>,
    interface |->
     <<"-", "-", "i", "n", "t", "e", "r", "f", "a", "c", "e">>,
    t |->
     <<"-", "t">>,
    interval |->
     <<"-", "-", "i", "n", "t", "e", "r", "v", "a", "l">>,
    o |->
     <<"-", "o">>,
    output |->
     <<"-", "-", "o", "u", "t", "p", "u", "t">>,
    f |->
     <<"-", "f">>,
    format |->
     <<"-", "-", "f", "o", "r", "m", "a", "t">>,
    once |->
     <<"-", "-", "o", "n", "c", "e">>,
    analyze |->
     <<"-", "-", "a", "n", "a", "l", "y", "z", "e">> ]

\* the option values of the runs considered
Arg ==
  [ wlan0 |->
     <<"w", "l", "a", "n", "0">>,
    ms2000 |->
     <<"2", "0", "0", "0">>,
    ms500 |->
     <<"5", "0", "0">>,
    ms10000 |->
     <<"1", "0", "0", "0", "0">>,
    out |->
     <<"o", "u", "t">>,
    csv |->
     <<"c", "s", "v">>,
    json |->
     <<"j", "s", "o", "n">>,
    both |->
     <<"b", "o", "t", "h">>,
    file |->
     <<".", "/", "w", "i", "f", "i", "_", "d", "a", "t", "a", "/", "w", "i", "f", "i", "_", "s", "c", "a", "n", ".", "c", "s", "v">> ]

\* the four short options with good values
ShortOptions(fmt) == <<Flag.i, Arg.wlan0, Flag.t, Arg.ms2000, Flag.o, Arg.out, Flag.f, fmt>>

\* process.argv.slice(2) of the runs considered
ArgLists ==
  {<<>>,
   <<Flag.help>>,
   <<Flag.once, Flag.h>>,
   <<Flag.once>>,
   <<Flag.analyze, Arg.file>>,
   <<Flag.interface, Arg.wlan0, Flag.interval, Arg.ms10000, Flag.format, Arg.csv>>,
   <<Arg.both, Flag.once>>,
   <<Flag.i, Arg.wlan0, Flag.t, Arg.ms500, Flag.o, Arg.out, Flag.f, Arg.csv, Flag.once>>,
   ShortOptions(Arg.csv) \o <<Flag.once>>,
   ShortOptions(Arg.both) \o <<Flag.once>>,
   ShortOptions(Arg.json),
   ShortOptions(Arg.csv) \o <<Flag.analyze>>,
   ShortOptions(Arg.both) \o <<Flag.analyze, Arg.file>>,
   ShortOptions(Arg.json) \o <<Flag.analyze, Arg.file, Flag.once>>}

\* Array.prototype.includes
includes(as, x) == \E k \in 1..Len(as) : as[k] = x

\* Array.prototype.indexOf: the first position, from 0, or -1
indexOf(as, x) ==
  IF includes(as, x)
  THEN (CHOOSE k \in 1..Len(as) :
          as[k] = x /\ \A j \in 1..(k - 1) : as[j] # x) - 1
  ELSE 0 - 1

\* args[args.indexOf(flag) + 1]
argAfter(as, flag) ==
  LET i == indexOf(as, flag) + 1
  IN  IF i < Len(as) THEN Str(as[i + 1]) ELSE Undefined

\* lines 833-838
cliOptions(as) ==
  [interface |-> Or(Or(argAfter(as, Flag.i), argAfter(as, Flag.interface)),
                    Str(Interface)),
   interval  |-> LET n == parseInt10(Or(argAfter(as, Flag.t),
                                        argAfter(as, Flag.interval)))
                 IN  IF n = <<>> \/ n[1] = 0 THEN Num(DefaultInterval)
                     ELSE Num(n[1]),
   outputDir |-> Or(Or(argAfter(as, Flag.o), argAfter(as, Flag.output)),
                    Str(DefaultOutputDir)),
   format    |-> Or(Or(argAfter(as, Flag.f), argAfter(as, Flag.format)),
                    Str(DefaultFormat))]

\* lines 8-23: new WiFiMonitor(o) when the directories ds exist and
\* mkdirSync, if called, succeeds or not
newMonitor(o, ds, mkdirOk) ==
  LET made(r) ==
        IF ~r.ok THEN [ok |-> FALSE, error |-> r.error, dirs |-> ds]
        ELSE IF resolve(r.value.outputDir.s) \in ds
          THEN [ok |-> TRUE, value |-> r.value, dirs |-> ds]
        ELSE IF mkdirOk
          THEN [ok |-> TRUE, value |-> r.value,
                dirs |-> ds \cup {resolve(r.value.outputDir.s)}]
        ELSE [ok |-> FALSE, error |-> "mkdirSync", dirs |-> ds]
  IN  made(construct(o))

\* this.format as the monitoring loop reads it
FormatName(chs) == CHOOSE f \in Formats : FormatChars(f) = chs

\* no command line: the class is used as a library
CliIdle == args = <<>> /\ cliPc = "none" /\ analysis = "none" /\ oneShot = 0

\* lines 785-869: the script, up to its last line
CliMain ==
  /\ cliPc = "start" /\ Running
  /\ cliPc' = "main"
  /\ lastCall' = "cli"
  /\ UNCHANGED <<args, impl, execLog, scanCount, monitoringInterval, csvFile,
                 jsonFiles>>
  /\ IF includes(args, Flag.help) \/ includes(args, Flag.h)
     THEN \* lines 788-830
          /\ exitCode' = 0 /\ console' = {"help"}
          /\ UNCHANGED <<options, self, ctorPc, thrown, dirs, format,
                         analysis, oneShot, cycles, isMonitoring,
                         successfulScans, failedScans, consecutiveFailed,
                         startPc>>
     ELSE \E mkdirOk \in BOOLEAN :
       \E m \in {newMonitor(cliOptions(args), dirs, mkdirOk)} :
           /\ options' = cliOptions(args)
           /\ dirs' = m.dirs
           /\ IF ~m.ok
              THEN \* line 840 throws and nothing catches it
                   /\ ctorPc' = "threw" /\ thrown' = m.error
                   /\ exitCode' = 1 /\ console' = {"uncaught"}
                   /\ UNCHANGED <<self, format, analysis, oneShot, cycles,
                                  isMonitoring, successfulScans, failedScans,
                                  consecutiveFailed, startPc>>
              ELSE /\ ctorPc' = "constructed" /\ self' = <<m.value>>
                   /\ format' = FormatName(m.value.format.s)
                   /\ UNCHANGED thrown
                   /\ IF includes(args, Flag.analyze)
                          /\ ~Truthy(argAfter(args, Flag.analyze))
                      THEN \* lines 844-849
                           /\ exitCode' = 1 /\ console' = {"usage"}
                           /\ UNCHANGED <<analysis, oneShot, cycles,
                                          isMonitoring, successfulScans,
                                          failedScans, consecutiveFailed,
                                          startPc>>
                      ELSE /\ analysis' = IF includes(args, Flag.analyze)
                                          THEN "pending" ELSE "none"
                           /\ UNCHANGED exitCode
                           /\ IF includes(args, Flag.once)
                              THEN \* lines 859-860
                                   /\ cycles' = [cycles EXCEPT ![FreeSlot] =
                                                   scanOnce(FALSE)]
                                   /\ oneShot' = FreeSlot
                                   /\ console' = {"scanning"}
                                   /\ UNCHANGED <<isMonitoring,
                                        successfulScans, failedScans,
                                        consecutiveFailed, startPc>>
                              ELSE \* line 867, lines 512-539
                                   /\ console' = {"banner"}
                                   /\ isMonitoring' = TRUE
                                   /\ failedScans' = 0
                                   /\ successfulScans' = 0
                                   /\ consecutiveFailed' = 0
                                   /\ startPc' = "check"
                                   /\ UNCHANGED <<oneShot, cycles>>

\* what analyzeCSV printed last: every error of lines 652-676 is caught or
\* answered by a return, and the statistics of lines 693-778 do not throw
AnalysisOutcomes ==
  {"invalidPath", "notFound", "readError", "notEnough", "statistics"}

\* as AnalysisDone, but an analysis that found no file rejects
AnalysisDone_rejectsOnError ==
  /\ analysis = "pending" /\ Running
  /\ lastCall' = "analyzeCSV"
  /\ analysis' = "done"
  /\ \E printed \in AnalysisOutcomes :
       /\ console' = {printed}
       /\ exitCode' = IF printed = "notFound" THEN 1 ELSE 0
  /\ UNCHANGED <<args, cliPc, oneShot, isMonitoring, scanCount,
                 successfulScans, failedScans, monitoringInterval, startPc,
                 cycles, consecutiveFailed, format, csvFile, jsonFiles>>

\* lines 650-778 and 850-851: analyzeCSV resolves and the process exits
AnalysisDone ==
  /\ analysis = "pending" /\ Running
  /\ lastCall' = "analyzeCSV"
  /\ analysis' = "done"
  /\ \E printed \in AnalysisOutcomes : console' = {printed}
  /\ exitCode' = 0
  /\ UNCHANGED <<args, cliPc, oneShot, isMonitoring, scanCount,
                 successfulScans, failedScans, monitoringInterval, startPc,
                 cycles, consecutiveFailed, format, csvFile, jsonFiles>>

\* lines 577-580: Ctrl+C, once startMonitoring has registered its handler
Sigint == startPc = "running" /\ stopMonitoring

-----------------------------------------------------------------------------
(* Specifications *)

\* lines 8-23: a monitor just constructed
MonitorIdle ==
  /\ isMonitoring = FALSE /\ scanCount = 0
  /\ successfulScans = 0 /\ failedScans = 0
  /\ monitoringInterval = "unset" /\ startPc = "idle"
  /\ cycles = [c \in 1..MaxCycles |-> FreeCycle]
  /\ exitCode = 0 - 1 /\ console = {} /\ lastCall = "none"
  /\ consecutiveFailed = 0
  /\ format = "both"
  /\ csvFile = [exists |-> FALSE, headers |-> 0]
  /\ jsonFiles = {}
  /\ Constructed(format)

ScanIdle == sc = IdleFrame

\* the monitoring loop
Init ==
  /\ ParseIdle /\ ScanIdle /\ CsvIdle /\ DistIdle /\ CliIdle
  /\ isMonitoring = FALSE /\ scanCount = 0
  /\ successfulScans = 0 /\ failedScans = 0
  /\ monitoringInterval = "unset" /\ startPc = "idle"
  /\ cycles = [c \in 1..MaxCycles |-> FreeCycle]
  /\ exitCode = 0 - 1 /\ console = {} /\ lastCall = "none"
  /\ consecutiveFailed = 0
  /\ format \in Formats
  /\ csvFile \in {[exists |-> e, headers |-> 0] : e \in BOOLEAN}
  /\ jsonFiles = {}
  /\ Constructed(format)

Next ==
  \/ (startMonitoring
        /\ UNCHANGED <<parseVars, scanVars, ctorVars, csvVars, distVars,
                       cliVars>>)
  \/ (checkInterfaceDone
        /\ UNCHANGED <<parseVars, scanVars, ctorVars, csvVars, distVars,
                       cliVars>>)
  \/ (timerCallback
        /\ UNCHANGED <<parseVars, scanVars, ctorVars, csvVars, distVars,
                       cliVars>>)
  \/ (stopMonitoring
        /\ UNCHANGED <<parseVars, scanVars, ctorVars, csvVars, distVars,
                       cliVars>>)
  \/ \E c \in 1..MaxCycles :
       \/ (scanSettles(c)
             /\ UNCHANGED <<parseVars, scanVars, ctorVars, csvVars, distVars,
                            cliVars>>)
       \/ (scanWakes(c)
             /\ UNCHANGED <<parseVars, scanVars, ctorVars, csvVars, distVars,
                            cliVars>>)
       \/ (csvAccessDone(c)
             /\ UNCHANGED <<parseVars, scanVars, ctorVars, csvVars, distVars,
                            cliVars>>)
       \/ (csvAppendDone(c)
             /\ UNCHANGED <<parseVars, scanVars, ctorVars, csvVars, distVars,
                            cliVars>>)
       \/ (jsonWriteDone(c)
             /\ UNCHANGED <<parseVars, scanVars, ctorVars, csvVars, distVars,
                            cliVars>>)

Spec == Init /\ [][Next]_vars

\* one call of the parser
\* lines 139-142
ParseInit ==
  LET ParseStart ==
        /\ \E output \in Texts : lines = split(output)
        /\ idx = 1 /\ currentAp = <<>> /\ bssid = <<>> /\ aps = <<>>
        /\ ppc = "loop" /\ now = 0
  IN  ParseStart /\ ScanIdle /\ MonitorIdle /\ CsvIdle /\ DistIdle /\ CliIdle
ParseNext ==
  \/ (ParseLine
        /\ UNCHANGED <<scanVars, monVars, ctorVars, csvVars, distVars,
                       cliVars>>)
  \/ (ParseEnd
        /\ UNCHANGED <<scanVars, monVars, ctorVars, csvVars, distVars,
                       cliVars>>)
  \/ (ClockTick
        /\ UNCHANGED <<scanVars, monVars, ctorVars, csvVars, distVars,
                       cliVars>>)
ParseSpec == ParseInit /\ [][ParseNext]_vars

\* one call of the parser on the lines of records' sections
\* lines 139-142, on a text of section lines
SectionInit ==
  LET SectionStart ==
        /\ \E output \in SectionTexts : lines = split(output)
        /\ idx = 1 /\ currentAp = <<>> /\ bssid = <<>> /\ aps = <<>>
        /\ ppc = "loop" /\ now = 0
  IN  SectionStart /\ ScanIdle /\ MonitorIdle /\ CsvIdle /\ DistIdle /\ CliIdle
SectionSpec == SectionInit /\ [][ParseNext]_vars

\* one call of the parser on signal and frequency lines
\* lines 139-142, on a text of signal and frequency lines
DistanceInit ==
  LET DistanceStart ==
        /\ \E output \in DistanceTexts : lines = split(output)
        /\ idx = 1 /\ currentAp = <<>> /\ bssid = <<>> /\ aps = <<>>
        /\ ppc = "loop" /\ now = 0
  IN  DistanceStart /\ ScanIdle /\ MonitorIdle /\ CsvIdle /\ DistIdle /\ CliIdle
DistanceSpec == DistanceInit /\ [][ParseNext]_vars

\* one call of the parser on header-like lines
\* lines 139-142, on a text of header-like lines
HeaderInit ==
  LET HeaderStart ==
        /\ \E output \in HeaderTexts : lines = split(output)
        /\ idx = 1 /\ currentAp = <<>> /\ bssid = <<>> /\ aps = <<>>
        /\ ppc = "loop" /\ now = 0
  IN  HeaderStart /\ ScanIdle /\ MonitorIdle /\ CsvIdle /\ DistIdle /\ CliIdle
HeaderSpec == HeaderInit /\ [][ParseNext]_vars

\* one call of the parser on lines that hold several literals
\* lines 139-142, on a text of PriorityTexts
PriorityInit ==
  LET PriorityStart ==
        /\ \E output \in PriorityTexts : lines = split(output)
        /\ idx = 1 /\ currentAp = <<>> /\ bssid = <<>> /\ aps = <<>>
        /\ ppc = "loop" /\ now = 0
  IN  PriorityStart /\ ScanIdle /\ MonitorIdle /\ CsvIdle /\ DistIdle /\ CliIdle
PrioritySpec == PriorityInit /\ [][ParseNext]_vars

\* one call of scan
ScanInit == ParseIdle /\ ScanIdle /\ MonitorIdle /\ CsvIdle /\ DistIdle /\ CliIdle
ScanNext ==
  \/ (ScanCall
        /\ UNCHANGED <<parseVars, monVars, ctorVars, csvVars, distVars,
                       cliVars>>)
  \/ (ScanSettle
        /\ UNCHANGED <<parseVars, monVars, ctorVars, csvVars, distVars,
                       cliVars>>)
  \/ (ScanWake
        /\ UNCHANGED <<parseVars, monVars, ctorVars, csvVars, distVars,
                       cliVars>>)
ScanSpec == ScanInit /\ [][ScanNext]_vars

\* one call of scan, when every command invoked calls back (execFile kills
\* it after its timeout at the latest) and every timer of _sleep fires
FairScanSpec ==
  /\ ScanSpec
  /\ WF_vars(ScanSettle
               /\ UNCHANGED <<parseVars, monVars, ctorVars, csvVars,
                              distVars, cliVars>>)
  /\ WF_vars(ScanWake
               /\ UNCHANGED <<parseVars, monVars, ctorVars, csvVars,
                              distVars, cliVars>>)

\* one call of scan on a monitor whose parser may throw
ThrowingParserNext ==
  \/ ScanNext
  \/ (ScanSettleParserThrows
        /\ UNCHANGED <<parseVars, monVars, ctorVars, csvVars, distVars,
                       cliVars>>)
ThrowingParserSpec == ScanInit /\ [][ThrowingParserNext]_vars

\* one construction of a monitor, and the commands it then invokes
CommandInit ==
  /\ ParseIdle /\ ScanIdle /\ CtorNew /\ CsvIdle /\ DistIdle /\ CliIdle
  /\ isMonitoring = FALSE /\ scanCount = 0
  /\ successfulScans = 0 /\ failedScans = 0
  /\ monitoringInterval = "unset" /\ startPc = "idle"
  /\ cycles = [c \in 1..MaxCycles |-> FreeCycle]
  /\ exitCode = 0 - 1 /\ console = {} /\ lastCall = "none"
  /\ consecutiveFailed = 0
  /\ format = "both"
  /\ csvFile = [exists |-> FALSE, headers |-> 0]
  /\ jsonFiles = {}
CommandNext ==
  \/ (Construct
        /\ UNCHANGED <<parseVars, scanVars, monVars, csvVars, distVars,
                       cliVars>>)
  \/ (InvokeCheck
        /\ UNCHANGED <<parseVars, scanVars, monVars, csvVars, distVars,
                       cliVars>>)
  \/ (InvokeScan
        /\ UNCHANGED <<parseVars, scanVars, monVars, csvVars, distVars,
                       cliVars>>)
CommandSpec == CommandInit /\ [][CommandNext]_vars

\* the same, for the class of wifi-monitor.js
CtorInit == CommandInit /\ impl = "wifi-monitor.js"
CtorSpec == CtorInit /\ [][CommandNext]_vars

\* one record saved to a new CSV file, and the file then analysed
\* a record to be saved to a new file
CsvInit ==
  LET CsvStart ==
        /\ csvAps \in {<<ap>> : ap \in CsvRecords}
        /\ row = <<>> /\ fileText = <<>> /\ data = <<>>
        /\ csvPc = "ready"
  IN  ParseIdle /\ ScanIdle /\ MonitorIdle /\ CsvStart /\ DistIdle /\ CliIdle
CsvNext ==
  \/ (SaveToCSV
        /\ UNCHANGED <<parseVars, scanVars, monVars, ctorVars, distVars,
                       cliVars>>)
  \/ (AnalyzeCSV
        /\ UNCHANGED <<parseVars, scanVars, monVars, ctorVars, distVars,
                       cliVars>>)
CsvSpec == CsvInit /\ [][CsvNext]_vars

\* one call of calculateDistance
\* the signal levels (dBm) and the frequencies (MHz) tabulated
DistInit ==
  LET SignalLevels == {5 * k - 100 : k \in 0..29}
      Frequencies == {2412, 2437, 5180, 5500}
      \* the arguments of a call: a signal level and a frequency
      DistStart ==
        /\ distArgs \in {<<[m |-> r, e |-> 0], f>> :
                           r \in SignalLevels, f \in Frequencies}
        /\ distResult = <<>>
  IN  ParseIdle /\ ScanIdle /\ MonitorIdle /\ CsvIdle /\ DistStart /\ CliIdle
DistNext ==
  \/ (CalculateDistance
        /\ UNCHANGED <<parseVars, scanVars, monVars, ctorVars, csvVars,
                       cliVars>>)
DistSpec == DistInit /\ [][DistNext]_vars

\* one run of the command line
\* the process has started
CliInit ==
  LET CliStart ==
        /\ args \in ArgLists
        /\ cliPc = "start" /\ analysis = "none" /\ oneShot = 0
  IN  /\ ParseIdle /\ ScanIdle /\ CsvIdle /\ DistIdle /\ CliStart
      /\ isMonitoring = FALSE /\ scanCount = 0
      /\ successfulScans = 0 /\ failedScans = 0
      /\ monitoringInterval = "unset" /\ startPc = "idle"
      /\ cycles = [c \in 1..MaxCycles |-> FreeCycle]
      /\ exitCode = 0 - 1 /\ console = {} /\ lastCall = "none"
      /\ consecutiveFailed = 0
      /\ format = "both"
      /\ csvFile = [exists |-> FALSE, headers |-> 0]
      /\ jsonFiles = {}
      /\ impl = "wifi-monitor.js"
      /\ options = [interface |-> Undefined, interval |-> Undefined,
                    outputDir |-> Undefined, format |-> Undefined]
      /\ self = <<>> /\ ctorPc = "new" /\ thrown = ""
      /\ dirs \in {{}, {resolve(DefaultOutputDir)}}
      /\ execLog = {}
CliNext ==
  \/ (CliMain /\ UNCHANGED <<parseVars, scanVars, csvVars, distVars>>)
  \/ (AnalysisDone
        /\ UNCHANGED <<parseVars, scanVars, ctorVars, csvVars, distVars>>)
  \/ (checkInterfaceDone
        /\ UNCHANGED <<parseVars, scanVars, ctorVars, csvVars, distVars,
                       cliVars>>)
  \/ (timerCallback
        /\ UNCHANGED <<parseVars, scanVars, ctorVars, csvVars, distVars,
                       cliVars>>)
  \/ (Sigint
        /\ UNCHANGED <<parseVars, scanVars, ctorVars, csvVars, distVars,
                       cliVars>>)
  \/ \E c \in 1..MaxCycles :
       \/ (scanSettles(c)
             /\ UNCHANGED <<parseVars, scanVars, ctorVars, csvVars, distVars,
                            cliVars>>)
       \/ (scanWakes(c)
             /\ UNCHANGED <<parseVars, scanVars, ctorVars, csvVars, distVars,
                            cliVars>>)
       \/ (csvAccessDone(c)
             /\ UNCHANGED <<parseVars, scanVars, ctorVars, csvVars, distVars,
                            cliVars>>)
       \/ (csvAppendDone(c)
             /\ UNCHANGED <<parseVars, scanVars, ctorVars, csvVars, distVars,
                            cliVars>>)
       \/ (jsonWriteDone(c)
             /\ UNCHANGED <<parseVars, scanVars, ctorVars, csvVars, distVars,
                            cliVars>>)
CliSpec == CliInit /\ [][CliNext]_vars

-----------------------------------------------------------------------------
(* Properties *)

\* a line that begins with "BSS " and 17 characters of lower-case hex digits
\* and colons
IsHeaderLine(l) ==
  /\ Len(l) >= 21
  /\ l[1] = "B" /\ l[2] = "S" /\ l[3] = "S" /\ l[4] = " "
  /\ \A k \in 5..21 :
       l[k] \in {"0", "1", "2", "3", "4", "5", "6", "7", "8", "9",
                 "a", "b", "c", "d", "e", "f", ":"}

HeaderLines == SelectSeq(lines, IsHeaderLine)

\* C1: when parseIwScan returns, the result has one record per header line
\* of the input, the i-th record carrying the address of the i-th header
\* line; header lines with equal addresses each give a record.
C1_OneRecordPerHeader ==
  ppc = "done" =>
    /\ Len(aps) = Len(HeaderLines)
    /\ \A i \in 1..Len(aps) : aps[i]["bssid"] = SubSeq(HeaderLines[i], 5, 21)

\* C1 witness: two header lines with the same address and one other line
C1_Witness ==
  /\ ppc = "done" /\ Len(lines) = 3 /\ Len(aps) = 2
  /\ aps[1]["bssid"] = aps[2]["bssid"]

BusyOutcome(out) ==
  out.error # <<>> /\ Includes(out.error[1], BusySignature)
OkOutcome(out) == out.error = <<>>

\* C2: with retries >= 1, when the first k < retries attempts failed busy
\* and attempt k+1 succeeded, scan has returned the records of attempt k+1
\* after k sleeps and k+1 invocations of the command, and makes no other.
C2_BusyThenSuccess ==
  LET n == Len(sc.settled)
  IN  (/\ sc.retries >= 1 /\ n >= 1 /\ n - 1 < sc.retries
       /\ OkOutcome(sc.settled[n])
       /\ \A i \in 1..(n - 1) : BusyOutcome(sc.settled[i]))
      => /\ sc.pc = "done"
         /\ sc.result =
              Returned(<<parseIwScan(sc.settled[n].stdout, Interface, now)>>)
         /\ Len(sc.slept) = n - 1
         /\ sc.invoked = n

\* C2 witness: scan(3, d), busy twice, then a scan that finds a station
C2_Witness ==
  /\ sc.pc = "done" /\ sc.retries = 3 /\ Len(sc.settled) = 3
  /\ sc.settled[3].stdout = Stdout.OneAp
  /\ sc.result.kind = "returned" /\ Len(sc.result.value[1]) = 1
  /\ Len(sc.slept) = 2

\* C3: an attempt that failed with an error without the busy signature is
\* the last one: scan has thrown that error, with no sleep and no attempt
\* after it.
C3_NonBusyNotRetried ==
  \A i \in 1..Len(sc.settled) :
    (~OkOutcome(sc.settled[i]) /\ ~BusyOutcome(sc.settled[i]))
      => /\ i = Len(sc.settled)
         /\ sc.pc = "done"
         /\ sc.result = Threw(ScanErrorPrefix \o sc.settled[i].error[1])
         /\ sc.invoked = i
         /\ Len(sc.slept) = i - 1

\* C3 witness: a first attempt that fails with "device busy" in other words
C3_Witness ==
  /\ sc.retries = 3 /\ sc.settled = <<[error |-> <<ErrorMessage.BusyLike>>,
                                       stdout |-> <<>>, stderr |-> <<>>]>>
  /\ sc.pc = "done" /\ sc.result.kind = "threw"
  /\ sc.invoked = 1 /\ sc.slept = <<>>

\* C4: with retries >= 1, when every attempt failed busy, scan has thrown
\* the error of the last attempt after retries invocations and retries-1
\* sleeps, each of retryDelay.
C4_AllBusy ==
  (/\ sc.pc = "done" /\ sc.retries >= 1
   /\ \A i \in 1..Len(sc.settled) : BusyOutcome(sc.settled[i]))
  => /\ Len(sc.settled) = sc.retries
     /\ sc.invoked = sc.retries
     /\ sc.result =
          Threw(ScanErrorPrefix \o sc.settled[sc.retries].error[1])
     /\ sc.slept = [i \in 1..(sc.retries - 1) |-> sc.retryDelay]

\* C4 witness: scan(3, 1000) with three busy failures
C4_Witness ==
  /\ sc.pc = "done" /\ sc.retries = 3 /\ sc.retryDelay = 1000
  /\ Len(sc.settled) = 3 /\ BusyOutcome(sc.settled[3])
  /\ sc.result.kind = "threw" /\ sc.slept = <<1000, 1000>>

\* C5: a call of scan that is over has returned a record sequence or has
\* thrown, whatever the value of retries.
C5_ReturnsRecordsOrThrows ==
  sc.pc = "done" =>
    \/ sc.result.kind = "returned" /\ sc.result.value # <<>>
    \/ sc.result.kind = "threw"

\* C6: a failed cycle emits the advisory exactly when more than 5 cycles
\* have failed in a row since the last successful cycle.
C6_AdvisoryOnConsecutiveFailures ==
  [][(failedScans' = failedScans + 1)
       => (("advisory" \in console') <=> (consecutiveFailed' > 5))]_vars

\* C7: a tick of the timer while isMonitoring is true starts a scan cycle
\* whatever cycles are still in flight.
C7_TickStartsCycle ==
  [][(lastCall' = "timerCallback" /\ isMonitoring)
       => Cardinality(InFlight') = Cardinality(InFlight) + 1]_vars

\* C7 witness: a tick has started a cycle while an earlier one is asleep
\* between two attempts
C7_Witness ==
  /\ lastCall = "timerCallback" /\ Cardinality(InFlight) = 2
  /\ \E c \in InFlight : cycles[c].scan.pc = "sleep"
  /\ \A c \in InFlight : ~cycles[c].initial

\* C8: a failed cycle leaves isMonitoring true, the timer armed and the
\* process running.
C8_FailuresNeverStop ==
  [][(failedScans' = failedScans + 1)
       => (isMonitoring' /\ monitoringInterval' = "armed"
           /\ exitCode' = 0 - 1)]_vars

\* C8 witness: after six failed cycles a tick has started the next cycle
C8_Witness ==
  /\ failedScans = 6 /\ successfulScans = 0
  /\ isMonitoring /\ monitoringInterval = "armed" /\ Running
  /\ lastCall = "timerCallback" /\ InFlight # {}

\* C9: stopMonitoring on a running monitor sets isMonitoring to false and
\* leaves no timer armed, and while isMonitoring is false no step starts a
\* cycle or changes a counter.
C9_StopHalts ==
  [][/\ (lastCall' = "stopMonitoring" /\ isMonitoring)
          => (~isMonitoring' /\ monitoringInterval' # "armed")
     /\ ~isMonitoring
          => (/\ Cardinality(InFlight') <= Cardinality(InFlight)
              /\ UNCHANGED <<scanCount, successfulScans, failedScans>>)]_vars

\* C9 witness: a monitor stopped with its timer armed and a cycle in flight
C9_Witness ==
  /\ lastCall = "stopMonitoring" /\ ~isMonitoring /\ exitCode = 0
  /\ monitoringInterval = "cleared" /\ InFlight # {}

\* C10: stopMonitoring while isMonitoring is false changes no field of the
\* monitor, prints nothing and does not end the process.
C10_StopWhenIdleIsNoOp ==
  [][(lastCall' = "stopMonitoring" /\ ~isMonitoring)
       => (/\ UNCHANGED <<isMonitoring, monitoringInterval, scanCount,
                          successfulScans, failedScans, exitCode>>
           /\ console' = {})]_vars

\* C10 witness: stopMonitoring has run on a monitor that was never started
C10_Witness ==
  /\ lastCall = "stopMonitoring" /\ ~isMonitoring /\ Running
  /\ startPc = "idle"

\* C11: a cycle whose CSV append or JSON write has started is never cut off
\* by the end of the process: while a write is in flight the process runs.
C11_WritesRunToCompletion ==
  \A c \in 1..MaxCycles :
    cycles[c].stage \in {"csvAppend", "jsonWrite"} => Running

\* C12: when startMonitoring has ended the process because the interface
\* check failed, isMonitoring is false, no scan was started, no counter was
\* incremented and no timer was armed.
C12_FailedCheckExits ==
  /\ (lastCall = "checkInterface" /\ InFlight = {}) => exitCode = 1
  /\ exitCode = 1
       => /\ ~isMonitoring
          /\ \A c \in 1..MaxCycles : cycles[c] = FreeCycle
          /\ scanCount = 0 /\ successfulScans = 0 /\ failedScans = 0
          /\ monitoringInterval = "unset"

\* C12 witness: the process has ended with code 1 at the interface check
C12_Witness ==
  /\ exitCode = 1 /\ lastCall = "checkInterface" /\ startPc = "check"
  /\ console = {"noInterface"}

\* C13: the step in which the interface check passes starts exactly one
\* cycle, the first one, with no timer armed yet; every tick while
\* isMonitoring is true starts exactly one cycle and touches no other.
C13_OneCyclePerTrigger ==
  [][/\ (lastCall' = "checkInterface" /\ exitCode' = 0 - 1)
          => (/\ InFlight = {} /\ Cardinality(InFlight') = 1
              /\ \A c \in InFlight' : cycles'[c].initial
              /\ monitoringInterval' = "unset")
     /\ startPc = "initial"
          => (monitoringInterval = "unset" /\ Cardinality(InFlight) = 1)
     /\ (lastCall' = "timerCallback" /\ isMonitoring)
          => (/\ InFlight \subseteq InFlight'
              /\ Cardinality(InFlight' \ InFlight) = 1
              /\ \A c \in InFlight : cycles'[c] = cycles[c]
              /\ \A c \in InFlight' \ InFlight : ~cycles'[c].initial)]_vars

\* C13 witness: the first scan is over and the first tick has started the
\* second cycle
C13_Witness ==
  /\ lastCall = "timerCallback" /\ successfulScans + failedScans = 1
  /\ Cardinality(InFlight) = 1 /\ startPc = "running"

\* C14: a step that ends a cycle ends one cycle and adds 1 to exactly one
\* of successfulScans (scanOnce returned) and failedScans (scanOnce threw,
\* which it does from its scan); no other step changes the two counters,
\* but for startMonitoring setting them to 0.
C14_EachCycleCountedOnce ==
  [][LET over == {c \in InFlight : cycles'[c].stage = "free"}
     IN  IF over = {}
         THEN \/ UNCHANGED <<successfulScans, failedScans>>
              \/ /\ lastCall' = "startMonitoring"
                 /\ successfulScans' = 0 /\ failedScans' = 0
         ELSE /\ Cardinality(over) = 1
              /\ \A c \in over :
                   IF cycles[c].stage = "scan"
                   THEN /\ failedScans' = failedScans + 1
                        /\ successfulScans' = successfulScans
                   ELSE /\ successfulScans' = successfulScans + 1
                        /\ failedScans' = failedScans]_vars

\* C14 witness: a cycle has failed while another one was in flight, after
\* a successful one
C14_Witness ==
  /\ lastCall = "scanSettles" /\ console = {"scanError"}
  /\ successfulScans = 1 /\ failedScans = 1 /\ InFlight # {}

\* the positions of the header lines of the input, and the lines between
\* the i-th header line and the next one
HeaderAt == {k \in 1..Len(lines) : IsHeaderLine(lines[k])}
NthHeader(i) ==
  CHOOSE k \in HeaderAt : Cardinality({j \in HeaderAt : j < k}) = i - 1
SectionOf(i) ==
  SubSeq(lines, NthHeader(i) + 1,
         IF i < Cardinality(HeaderAt) THEN NthHeader(i + 1) - 1
         ELSE Len(lines))

\* the tags of the marker patterns a line contains
SecTags(l) ==
  (IF \E i \in 1..Len(l) :
        /\ LitAt(l, i, <<"W", "P", "A", ":">>)
        /\ LitAt(l, Star(l, i + 4, WS), <<"V", "e", "r", "s", "i", "o", "n">>)
   THEN <<"W", "P", "A", "1", " ">> ELSE <<>>)
  \o (IF \E i \in 1..Len(l) :
        /\ LitAt(l, i, <<"R", "S", "N", ":">>)
        /\ LitAt(l, Star(l, i + 4, WS), <<"V", "e", "r", "s", "i", "o", "n">>)
      THEN <<"W", "P", "A", "2", " ">> ELSE <<>>)
  \o (IF Includes(l, <<"W", "L", "A", "N", "_", "K", "E", "Y", "_", "M", "G",
                       "M", "T", "_", "S", "A", "E">>)
      THEN <<"W", "P", "A", "3", " ">> ELSE <<>>)

\* a line that one of the field tests takes
IsFieldLine(l) ==
  \/ freqMatch(l) # <<>> \/ signalMatch(l) # <<>> \/ lastSeenMatch(l) # <<>>
  \/ ssidMatch(l) # <<>> \/ channelMatch(l) # <<>> \/ capMatch(l) # <<>>
  \/ beaconMatch(l) # <<>> \/ countryMatch(l) # <<>>
  \/ htMatch(l) \/ vhtMatch(l) \/ heMatch(l)

\* a marker line: a line of nothing but security markers
RECURSIVE MarkerTags(_)
MarkerTags(ls) ==
  IF ls = <<>> THEN <<>>
  ELSE (IF IsFieldLine(Head(ls)) THEN <<>> ELSE SecTags(Head(ls)))
       \o MarkerTags(Tail(ls))

SecurityOf(ap) == IF Has(ap, "security") THEN ap["security"] ELSE <<>>

\* C15: when parseIwScan returns, each record's security field is the
\* concatenation, in line order, of the tags of the marker lines of its
\* section, a repeated marker line giving its tag again, and is absent when
\* there is none; an RSN line followed by a SAE line gives "WPA2 WPA3 ".
C15_SecurityIsConcatenation ==
  ppc = "done" =>
    /\ \A i \in 1..Len(aps) :
         /\ SecurityOf(aps[i]) = MarkerTags(SectionOf(i))
         /\ Has(aps[i], "security") <=> MarkerTags(SectionOf(i)) # <<>>
    /\ lines = <<Line.BssA, Line.RsnVersion, Line.Sae>>
         => aps[1]["security"]
              = <<"W", "P", "A", "2", " ", "W", "P", "A", "3", " ">>
    /\ lines = <<Line.BssA, Line.RsnVersion, Line.RsnVersion>>
         => aps[1]["security"]
              = <<"W", "P", "A", "2", " ", "W", "P", "A", "2", " ">>

\* C15 witness: an RSN line, a SAE line and the RSN line again in one section
C15_Witness ==
  /\ ppc = "done" /\ lines = <<Line.BssA, Line.RsnVersion, Line.Sae, Line.RsnVersion>>
  /\ Len(aps) = 1 /\ Len(aps[1]["security"]) = 15

\* a step of the loop over a line inside an open record's section
SectionStep ==
  /\ ppc = "loop" /\ idx <= Len(lines) /\ idx' = idx + 1
  /\ currentAp # <<>> /\ ~IsHeaderLine(lines[idx])

\* C16 as stated: every line of an open record's section appends the tags
\* of the markers it contains, whatever else the line contains.
C16_EveryMarkerAppends ==
  [][SectionStep =>
       SecurityOf(currentAp'[1])
         = SecurityOf(currentAp[1]) \o SecTags(lines[idx])]_vars

\* C16 amended: a line of an open record's section that no field test takes
\* appends the tags of the markers it contains, wherever in the section it
\* is; a line that a field test takes (SSID, capability, ...) leaves the
\* security field as it was, whatever markers it contains.
C16_MarkerAppendsUnlessFieldLine ==
  [][SectionStep =>
       SecurityOf(currentAp'[1])
         = SecurityOf(currentAp[1])
             \o (IF IsFieldLine(lines[idx]) THEN <<>>
                 ELSE SecTags(lines[idx]))]_vars

\* C16 witness: after an RSN line, an SSID line whose payload holds the RSN
\* marker has been read and has left the security field alone
C16_Witness ==
  /\ ppc = "loop" /\ idx = 4 /\ lines = <<Line.BssA, Line.RsnVersion, Line.SsidRsn>>
  /\ currentAp # <<>> /\ Has(currentAp[1], "ssid")
  /\ SecurityOf(currentAp[1]) = <<"W", "P", "A", "2", " ">>

\* /^\s*SSID:\s*$/ : an SSID line with an empty payload
EmptySsidLine(l) ==
  LET i == Star(l, 1, WS)
  IN  /\ i + 4 <= Len(l)
      /\ SubSeq(l, i, i + 4) = <<"S", "S", "I", "D", ":">>
      /\ \A k \in (i + 5)..Len(l) : l[k] \in WS

\* C19: once an SSID line with an empty payload has been read inside an open
\* record, the record's ssid is present and empty, and so it is in the
\* record emitted when no later SSID line of the section replaces it.
C19_EmptySsidPresent ==
  /\ (ppc = "loop" /\ idx > 1 /\ currentAp # <<>>
        /\ EmptySsidLine(lines[idx - 1]))
       => (Has(currentAp[1], "ssid") /\ currentAp[1]["ssid"] = <<>>)
  /\ ppc = "done" =>
       \A i \in 1..Len(aps) :
         LET sec == SectionOf(i)
         IN  (\E k \in 1..Len(sec) :
                /\ EmptySsidLine(sec[k])
                /\ \A j \in (k + 1)..Len(sec) :
                     EmptySsidLine(sec[j]) \/ ~IsFieldLine(sec[j]))
             => (Has(aps[i], "ssid") /\ aps[i]["ssid"] = <<>>)

\* C19 witness: a record emitted from a header line and one empty SSID line
C19_Witness ==
  /\ ppc = "done" /\ Len(lines) = 2 /\ EmptySsidLine(lines[2])
  /\ Len(aps) = 1 /\ Has(aps[1], "ssid") /\ aps[1]["ssid"] = <<>>

DistanceFields == {"distance_meters", "distance_min", "distance_max"}

\* C17: a record parseIwScan emits has the three distance fields when its
\* signal and its frequency are both present and not 0, and none of the
\* three otherwise.
C17_DistanceIffSignalAndFrequency ==
  ppc = "done" =>
    \A i \in 1..Len(aps) :
      IF /\ "signal_dbm" \in DOMAIN aps[i] /\ aps[i]["signal_dbm"].m # 0
         /\ "freq_mhz" \in DOMAIN aps[i] /\ aps[i]["freq_mhz"] # 0
      THEN DistanceFields \subseteq DOMAIN aps[i]
      ELSE DistanceFields \cap DOMAIN aps[i] = {}

\* C17 witness: a record with a frequency and a signal of 0 was emitted
\* without a distance
C17_Witness ==
  /\ ppc = "done" /\ Len(aps) = 1
  /\ "freq_mhz" \in DOMAIN aps[1] /\ aps[1]["freq_mhz"] = 2437
  /\ "signal_dbm" \in DOMAIN aps[1] /\ aps[1]["signal_dbm"].m = 0
  /\ "distance_meters" \notin DOMAIN aps[1]

\* six pairs of lower-case hex digits separated by colons
CanonicalAddress(a) ==
  /\ Len(a) = 17
  /\ \A k \in 1..17 :
       IF k % 3 = 0 THEN a[k] = ":"
       ELSE a[k] \in {"0", "1", "2", "3", "4", "5", "6", "7", "8", "9",
                      "a", "b", "c", "d", "e", "f"}

\* C18: the address of the open record and of every record in the result is
\* a canonical colon-hex address, so a `BSS ` line with any other address
\* has opened no record.
C18_BssidIsCanonical ==
  /\ bssid # <<>> => CanonicalAddress(bssid[1])
  /\ \A i \in 1..Len(aps) : CanonicalAddress(aps[i]["bssid"])

\* the interface name a logged command passes: an argument of execFile, or
\* what stands between "sudo iw dev " and " scan" in the text given to exec
InterfacePassed(cmd) ==
  IF cmd.via = "execFile" THEN cmd.args[Len(cmd.args) - 1]
  ELSE SubSeq(cmd.args[1], 13, Len(cmd.args[1]) - 5)

\* a non-empty string of at most 16 letters, digits, dashes and underscores
ValidInterfaceName(v) ==
  /\ v.type = "string" /\ Len(v.s) \in 1..16
  /\ \A k \in 1..Len(v.s) :
       \/ v.s[k] \in Digit \cup {"-", "_"}
       \/ v.s[k] \in Lower \/ v.s[k] \in Upper

\* C20: every command invoked passes a valid interface name, and once the
\* constructor has run on an interface option that is a string but not a
\* valid name, it has failed and no command has been invoked.
C20_OnlyValidNamesReachCommands ==
  /\ \A cmd \in execLog : ValidInterfaceName(Str(InterfacePassed(cmd)))
  /\ (/\ ctorPc # "new" /\ options.interface.type = "string"
      /\ ~ValidInterfaceName(options.interface))
       => (ctorPc = "threw" /\ self = <<>> /\ execLog = {})

\* C21: when a cycle's CSV append fails and the format selects JSON, the
\* same step goes on to the JSON write; when the JSON write fails, the CSV
\* file is left as it is; and a cycle whose scan succeeded ends, whatever its
\* saves did, with scanOnce returning (its caller counts a success and the
\* top-5 list is printed) and scanCount one higher.
C21_SavesAreIndependent ==
  [][/\ (lastCall' = "csvAppendDone" /\ "csvError" \in console'
           /\ format \in {"json", "both"})
          => \E c \in 1..MaxCycles :
               /\ cycles[c].stage = "csvAppend"
               /\ cycles'[c].stage = "jsonWrite"
               /\ cycles'[c].scan = cycles[c].scan
     /\ (lastCall' = "jsonWriteDone" /\ "jsonError" \in console')
          => csvFile' = csvFile
     /\ \A c \in 1..MaxCycles :
          (cycles[c].stage \in {"csvAccess", "csvAppend", "jsonWrite"}
             /\ cycles'[c].stage = "free")
            => /\ scanCount' = scanCount + 1
               /\ successfulScans' = successfulScans + 1
               /\ failedScans' = failedScans
               /\ "top5" \in console']_vars

\* C21 witness: with format both, a cycle has ended whose CSV append and
\* whose JSON write both failed
C21_Witness ==
  /\ format = "both" /\ lastCall = "jsonWriteDone"
  /\ console = {"jsonError", "top5"}
  /\ ~csvFile.exists /\ jsonFiles = {}
  /\ scanCount = 1 /\ successfulScans = 1 /\ failedScans = 0

\* C29: no step of the parser changes or removes a record that is in the
\* result; a line inside an open record changes nothing of the result.
C29_EmittedRecordsAreFrozen ==
  [][/\ Len(aps') >= Len(aps)
     /\ \A i \in 1..Len(aps) : aps'[i] = aps[i]
     /\ SectionStep => aps' = aps]_vars

\* C29 witness: a frequency line was read into the second record after the
\* first record was emitted
C29_Witness ==
  /\ ppc = "loop" /\ idx = 4 /\ Len(aps) = 1
  /\ currentAp # <<>> /\ Has(currentAp[1], "freq_mhz")
  /\ ~Has(aps[1], "freq_mhz")

\* a line that matches no header, field or security pattern
Unrecognised(l) == ~IsHeaderLine(l) /\ ~IsFieldLine(l) /\ SecTags(l) = <<>>

\* the records without the time they were opened at
Untimed(rs) == [i \in 1..Len(rs) |-> [rs[i] EXCEPT !["timestamp"] = 0]]

\* lines without its k-th element
Without(ls, k) == SubSeq(ls, 1, k - 1) \o SubSeq(ls, k + 1, Len(ls))

\* C30: the step over an unrecognised line leaves the open record, its
\* address and the result unchanged, and the records returned for a text
\* are those returned for the text without any one of its unrecognised
\* lines.
C30_UnrecognisedLinesIgnored ==
  [][/\ (ppc = "loop" /\ idx <= Len(lines) /\ idx' = idx + 1
           /\ Unrecognised(lines[idx]))
          => UNCHANGED <<currentAp, bssid, aps>>
     /\ ppc' = "done"
          => \A k \in 1..Len(lines) :
               (Unrecognised(lines[k]) /\ Len(lines) > 1)
                 => Untimed(parseIwScan(Join(Without(lines, k)),
                                        Interface, 0))
                      = Untimed(aps')]_vars

\* C30 witness: a record whose section had an unrecognised line before its
\* frequency line
C30_Witness ==
  /\ ppc = "done" /\ lines = <<Line.BssA, Line.Other, Line.Freq>>
  /\ Len(aps) = 1 /\ Has(aps[1], "freq_mhz")

\* the number of milliseconds an interval option asks for: <<>> when it is
\* not a number
RequestedMs(v) ==
  IF v.type = "number" THEN <<v.n>>
  ELSE IF v.type = "string" /\ v.s # <<>>
          /\ \A k \in 1..Len(v.s) : v.s[k] \in Digit
    THEN <<parseInt(v.s)>>
  ELSE <<>>

IntervalInRange(v) ==
  RequestedMs(v) # <<>> /\ RequestedMs(v)[1] \in 1000..3600000

GoodInterface(v) == ValidInterfaceName(v)
GoodOutputDir(v) ==
  /\ v.type = "string"
  /\ \A k \in 1..Len(v.s) :
       /\ v.s[k] # NUL
       /\ k < Len(v.s) => ~(v.s[k] = "." /\ v.s[k + 1] = ".")
GoodFormat(v) ==
  /\ v.type = "string"
  /\ v.s \in {<<"c", "s", "v">>, <<"j", "s", "o", "n">>,
              <<"b", "o", "t", "h">>}

\* what holds of every monitor that exists
MonitorIsValid ==
  /\ GoodInterface(self[1].interface)
  /\ self[1].interval.type = "number"
  /\ self[1].interval.n \in 1000..3600000
  /\ GoodFormat(self[1].format)
  /\ self[1].outputDir.type = "string"

Falsy(v) == v \in {Undefined, Num(0), Str(<<>>)}

AsString(v) == IF v \in {Undefined, Null} THEN <<>> ELSE toString(v)

\* C22: after a record is written as a CSV row and the file is analysed,
\* the one record read has, in every column, the value written, as a string.
C22_RowRoundTrips ==
  csvPc = "analyzed"
    => /\ Len(data) = 1
       /\ \A i \in 1..Len(Headers) :
            /\ Headers[i] \in DOMAIN data[1]
            /\ data[1][Headers[i]] = AsString(Get(csvAps[1], Headers[i]))

\* the characters of s with every double quote written twice
Doubled(s) ==
  LET pos(k) == k + Cardinality({j \in 1..(k - 1) : s[j] = "\""})
      n == Len(s) + Cardinality({j \in 1..Len(s) : s[j] = "\""})
  IN  [p \in 1..n |->
         IF \E k \in 1..Len(s) : pos(k) = p
           THEN s[CHOOSE k \in 1..Len(s) : pos(k) = p]
         ELSE "\""]

\* what _escapeCSVValue returns for value v when the values to wrap are
\* those that start with a character of lead or hold a character of inner
EscapedAs(out, v, lead, inner) ==
  IF v \in {Undefined, Null} THEN out = <<>>
  ELSE LET str == toString(v)
       IN  IF \/ str # <<>> /\ str[1] \in lead
              \/ \E k \in 1..Len(str) : str[k] \in inner
             THEN out = <<"\"">> \o Doubled(str) \o <<"\"">>
           ELSE out = str

\* C23 as stated: a value is wrapped in double quotes, its double quotes
\* doubled, exactly when it starts with = + - @ or a tab or holds a comma,
\* a double quote or a newline; other values are written unchanged, and
\* undefined and null as the empty string.
C23_QuotedExactlyWhenListed ==
  row # <<>>
    => \A i \in 1..Len(Headers) :
         EscapedAs(row[i], Get(csvAps[1], Headers[i]),
                   {"=", "+", "-", "@", "\t"}, {",", "\"", "\n"})

\* C23 amended: the same, with the carriage return among the characters
\* that make a value wrapped.
C23_QuotedExactlyWhenListedOrCarriageReturn ==
  row # <<>>
    => \A i \in 1..Len(Headers) :
         EscapedAs(row[i], Get(csvAps[1], Headers[i]),
                   {"=", "+", "-", "@", "\t"}, {",", "\"", "\n", "\r"})

\* C23 witness: a name that starts with = and holds a double quote has
\* been written wrapped, the quote doubled, next to an unchanged value
C23_Witness ==
  /\ csvPc = "saved"
  /\ Get(csvAps[1], Headers[4]) = Str(<<"=", "\"">>)
  /\ row[4] = <<"\"", "=", "\"", "\"", "\"">>
  /\ row[2] = Interface
  /\ row[6] = <<>>

\* C28: a distance estimate greater than 0 lies strictly between the
\* returned minimum and maximum.
C28_EstimateStrictlyInsideRange ==
  (distResult # <<>> /\ distResult[1].estimated > 0)
    => /\ distResult[1].min < distResult[1].estimated
       /\ distResult[1].estimated < distResult[1].max

OneShotMode == \E k \in 1..Len(args) : args[k] = Flag.once

\* C24 as stated: a run that has ended has exit code 1 when its monitor
\* could not be constructed or its arguments were refused, or when it is a
\* one-shot run whose scan failed, and exit code 0 otherwise.
C24_ExitOneOnValidationOrOneShotScanError ==
  exitCode # 0 - 1
    => /\ exitCode \in {0, 1}
       /\ exitCode = 1
            <=> \/ ctorPc = "threw"
                \/ console = {"usage"}
                \/ OneShotMode /\ "scanError" \in console

\* C24 amended: a run that has ended has exit code 1 when the constructor
\* threw, when --analyze came without a file, when the interface check of
\* startMonitoring failed, or when the scan of a one-shot cycle failed; it
\* has exit code 0 when the help was printed, when the analysis was over,
\* when the one-shot cycle was over after a successful scan, or when Ctrl+C
\* stopped the monitoring loop.
C24_ExitCodeByCause ==
  exitCode # 0 - 1
    => /\ exitCode \in {0, 1}
       /\ exitCode = 1
            <=> \/ lastCall = "cli" /\ ctorPc = "threw"
                \/ lastCall = "cli" /\ console = {"usage"}
                \/ lastCall = "checkInterface" /\ console = {"noInterface"}
                \/ oneShot # 0 /\ console = {"scanError"}
       /\ exitCode = 0
            <=> \/ lastCall = "cli" /\ console = {"help"}
                \/ lastCall = "analyzeCSV"
                \/ oneShot # 0 /\ "top5" \in console
                \/ lastCall = "stopMonitoring"

\* C24 witness: a one-shot run, its monitor constructed, has ended with
\* code 1 when its scan failed
C24_Witness ==
  /\ exitCode = 1 /\ OneShotMode /\ analysis = "none"
  /\ ctorPc = "constructed" /\ oneShot # 0
  /\ lastCall = "scanSettles" /\ console = {"scanError"}
  /\ scanCount = 0


\* the text from its first header line on
FromFirstHeader ==
  LET h == CHOOSE k \in HeaderAt : \A j \in HeaderAt : k <= j
  IN  SubSeq(lines, h, Len(lines))

\* C31: a step over a line that stands before the first header line leaves
\* the parser with no open record, no address and an empty result, whatever
\* the line matches; the records returned for a text are those returned for
\* the text from its first header line on, and none when it has no header.
C31_LinesBeforeFirstHeaderDiscarded ==
  [][/\ (ppc = "loop" /\ idx <= Len(lines) /\ idx' = idx + 1
           /\ \A k \in 1..idx : ~IsHeaderLine(lines[k]))
          => (currentAp' = <<>> /\ bssid' = <<>> /\ aps' = <<>>)
     /\ ppc' = "done"
          => IF HeaderAt = {} THEN aps' = <<>>
             ELSE Untimed(aps')
                    = Untimed(parseIwScan(Join(FromFirstHeader),
                                          Interface, 0))]_vars

\* C31 witness: a security line and an SSID line stood before the only
\* header, and the record has the tag of the line after the header alone
C31_Witness ==
  /\ ppc = "done"
  /\ lines = <<Line.RsnVersion, Line.SsidRsn, Line.BssA, Line.Sae>>
  /\ Len(aps) = 1 /\ ~Has(aps[1], "ssid")
  /\ SecurityOf(aps[1]) = <<"W", "P", "A", "3", " ">>


\* the records returned for the text followed by one more header line
WithOneMoreHeader ==
  Untimed(parseIwScan(Join(lines \o <<Line.BssA>>), Interface, 0))

\* C32: for a text with at least one header line, the records returned are
\* the first records returned for the text followed by one more header
\* line, field by field: the record closed at the end of the input is the
\* record the following header would have closed.
C32_EndFinalizeIsHeaderFinalize ==
  [][(ppc' = "done" /\ HeaderAt # {})
       => /\ Len(aps') >= 1
          /\ Len(WithOneMoreHeader) >= Len(aps')
          /\ SubSeq(WithOneMoreHeader, 1, Len(aps')) = Untimed(aps')]_vars

\* C32 witness: the last record of the text had a signal and a frequency,
\* and was closed with its three distance fields at the end of the input
C32_Witness ==
  /\ ppc = "done" /\ lines = <<Line.BssA, Line.Freq, Line.Signal>>
  /\ Len(aps) = 1 /\ DistanceFields \subseteq DOMAIN aps[1]
  /\ Has(aps[1], "bssid")


\* max(retries, 0)
InvocationLimit == IF sc.retries > 0 THEN sc.retries ELSE 0

\* C33: a call of scan never invokes the command more than max(retries, 0)
\* times, and every call that was made comes to its end, returning or
\* throwing, whatever the commands answer (a timeout included).
C33_ScanTerminates ==
  /\ [](sc.invoked <= InvocationLimit)
  /\ [](sc.pc = "done" => sc.result.kind \in {"returned", "threw"})
  /\ (sc.pc \in {"exec", "sleep"}) ~> (sc.pc = "done")

\* C33 witness: the second command timed out after a busy first one, and
\* the call threw the error of the timeout
C33_Witness ==
  /\ sc.pc = "done" /\ sc.retries = 3 /\ sc.invoked = 2
  /\ Len(sc.settled) = 2
  /\ sc.settled[1].error = <<ErrorMessage.Busy>>
  /\ sc.settled[2].error = <<ErrorMessage.TimedOut>>
  /\ sc.result = Threw(ScanErrorPrefix \o ErrorMessage.TimedOut)


\* the cycles in flight that startMonitoring started itself (line 550)
InitialInFlight == {c \in InFlight : cycles[c].initial}

\* C34: while the initial cycle is in flight it is the only cycle and the
\* timer is not armed; the timer is armed by the step that ends the initial
\* cycle and counts its outcome; and a cycle that a tick starts starts with
\* that outcome counted and no initial cycle in flight.
C34_InitialCycleRunsAlone ==
  [][/\ InitialInFlight # {}
          => (monitoringInterval = "unset" /\ InFlight = InitialInFlight
                /\ Cardinality(InFlight) = 1)
     /\ (monitoringInterval # "armed" /\ monitoringInterval' = "armed")
          => /\ InitialInFlight # {} /\ InitialInFlight' = {}
             /\ successfulScans' + failedScans'
                  = successfulScans + failedScans + 1
     /\ (\E c \in 1..MaxCycles :
           /\ cycles[c].stage = "free" /\ cycles'[c].stage # "free"
           /\ ~cycles'[c].initial)
          => /\ InitialInFlight = {} /\ startPc = "running"
             /\ successfulScans + failedScans >= 1]_vars

\* C34 witness: the first tick has started a cycle after the initial scan
\* failed and was counted
C34_Witness ==
  /\ lastCall = "timerCallback" /\ Cardinality(InFlight) = 1
  /\ InitialInFlight = {}
  /\ successfulScans = 0 /\ failedScans = 1
  /\ monitoringInterval = "armed"


\* C35: in a run of the monitoring loop that writes the CSV file, the
\* header row is written at most once, and only by a save that writes into
\* a file that does not exist yet (so that it is the first line).
C35_HeaderWrittenOnce ==
  [][/\ csvFile'.headers <= 1
     /\ csvFile'.headers > csvFile.headers => ~csvFile.exists]_vars


\* C36: the snapshot a successful cycle writes carries the number of
\* successful cycles completed before that cycle completes, and no snapshot
\* written earlier carries the same number.
C36_SnapshotsNumberedInOrder ==
  [][\A c \in 1..MaxCycles :
       (/\ cycles[c].stage = "jsonWrite" /\ cycles'[c].stage = "free"
        /\ "json" \in console')
         => /\ cycles[c].scan_count = scanCount
            /\ cycles[c].scan_count \notin jsonFiles]_vars


\* the command line asks for an analysis, names a file and has no --once
AnalyzeMode ==
  /\ includes(args, Flag.analyze) /\ ~includes(args, Flag.once)
  /\ ~includes(args, Flag.help) /\ ~includes(args, Flag.h)
  /\ Truthy(argAfter(args, Flag.analyze))

\* C37: a run in analyze mode whose monitor was constructed never calls
\* the interface check, never starts a scan cycle and never sets
\* isMonitoring, and it ends only by the exit that follows the analysis.
C37_AnalyzeModeIsOffline ==
  (AnalyzeMode /\ cliPc = "main" /\ ctorPc = "constructed")
    => /\ startPc = "idle" /\ ~isMonitoring /\ InFlight = {}
       /\ monitoringInterval = "unset"
       /\ ~Running => lastCall = "analyzeCSV"


\* the field tests in the order of the claim: the field each one sets, and
\* whether it takes the line
FieldTests(l) ==
  << <<"freq_mhz", freqMatch(l) # <<>> >>,
     <<"signal_dbm", signalMatch(l) # <<>> >>,
     <<"last_seen_ms", lastSeenMatch(l) # <<>> >>,
     <<"ssid", ssidMatch(l) # <<>> >>,
     <<"channel", channelMatch(l) # <<>> >>,
     <<"capability", capMatch(l) # <<>> >>,
     <<"beacon_interval", beaconMatch(l) # <<>> >>,
     <<"country", countryMatch(l) # <<>> >>,
     <<"ht_cap", htMatch(l)>>,
     <<"vht_cap", vhtMatch(l)>>,
     <<"he_cap", heMatch(l)>> >>

\* the tests that take the line, as positions of FieldTests
Taking(l) == {k \in 1..Len(FieldTests(l)) : FieldTests(l)[k][2]}

\* the field of the first test that takes the line
FirstField(l) ==
  FieldTests(l)[CHOOSE k \in Taking(l) : \A j \in Taking(l) : k <= j][1]

\* the fields in which two records differ
Changed(a, b) ==
  {f \in DOMAIN a \cup DOMAIN b :
     ~(Has(a, f) /\ Has(b, f) /\ a[f] = b[f])}

\* C38: a non-header line of an open record changes at most one field.  A
\* line that some field test takes sets the field of the first such test in
\* the order freq, signal, last seen, SSID, channel, capability, beacon int,
\* Country, HT, VHT, HE and nothing else, its security markers untried; a
\* line that none takes changes nothing but security, to which it appends
\* the tags of its markers in the order WPA1, WPA2, WPA3 wherever the
\* markers stand in the line.
C38_OneUpdateByPriority ==
  [][SectionStep =>
       /\ Taking(lines[idx]) # {}
            => /\ Changed(currentAp[1], currentAp'[1])
                    \subseteq {FirstField(lines[idx])}
               /\ Has(currentAp'[1], FirstField(lines[idx]))
               /\ SecurityOf(currentAp'[1]) = SecurityOf(currentAp[1])
       /\ Taking(lines[idx]) = {}
            => /\ Changed(currentAp[1], currentAp'[1]) \subseteq {"security"}
               /\ SecurityOf(currentAp'[1])
                    = SecurityOf(currentAp[1]) \o SecTags(lines[idx])
       /\ lines[idx] = Line.SaeRsnWpa
            => SecurityOf(currentAp'[1])
                 = SecurityOf(currentAp[1])
                     \o <<"W", "P", "A", "1", " ", "W", "P", "A", "2", " ",
                          "W", "P", "A", "3", " ">>
       /\ lines[idx] = Line.VhtCap
            => (Has(currentAp'[1], "ht_cap") => Has(currentAp[1], "ht_cap"))
       /\ lines[idx] = Line.SsidFreq
            => (Has(currentAp'[1], "freq_mhz")
                  => Has(currentAp[1], "freq_mhz"))]_vars

\* C38 witness: a record whose section was a line with the three markers
\* in the order SAE, RSN, WPA, then an SSID line with an RSN marker, then a
\* VHT line; its security is "WPA1 WPA2 WPA3 " and it has no ht_cap
C38_Witness ==
  /\ ppc = "done"
  /\ lines = <<Line.BssA, Line.SaeRsnWpa, Line.SsidRsn, Line.VhtCap>>
  /\ Len(aps) = 1
  /\ SecurityOf(aps[1])
       = <<"W", "P", "A", "1", " ", "W", "P", "A", "2", " ",
           "W", "P", "A", "3", " ">>
  /\ Has(aps[1], "ssid") /\ Has(aps[1], "vht_cap") /\ ~Has(aps[1], "ht_cap")

====
